---- MODULE Spec2Model ----
(***************************************************************************)
(* Enginality Runtime Loop v0.1 (ENGINALITY/runtime_loop.py): the per-tick *)
(* pipeline run_tick = step 1 (init), step 2 (ingest), step 3 (temporal    *)
(* order), step 6 (apply deltas), step 10 (domain views), step 11          *)
(* (performance scheduling), commit, breach and rollback, run against the  *)
(* in-memory collaborators of ENGINALITY/test_runtime_loop.py.             *)
(*                                                                         *)
(* Representation.  Strings are TLA+ strings; Python's lexicographic str   *)
(* comparison is StrLess over the strings the model uses.  A               *)
(* temporal_index is an integer count of 1e-7 units, so that rounding to   *)
(* 6 decimals (Round6) is rounding to a multiple of 10.  A Python value    *)
(* (state slot, payload amount) is a record [kind, n] with kind in         *)
(* {"none", "int", "float", "str"}.  None of an Optional field is a record *)
(* of the same shape with a reserved id (NoSnapshot, NoDelta) or NoStep.   *)
(* history is the log a caller keeps of what it reads in                   *)
(* runtime.current_snapshot after the construction and after every         *)
(* run_tick call, with the tick_id of the call.  heap holds the dict       *)
(* objects behind the zon4d_state of the snapshots: a Snapshot record of   *)
(* the model carries the content its dict had when the snapshot was made,  *)
(* heap.cells the content each dict has now.  heap also holds the lists    *)
(* and dicts behind the deltas of the caller (heap.pending) and of the     *)
(* context (heap.deltas), where a delta is a record whose parent_ids,      *)
(* payload and metadata fields name objects of heap.cells.                 *)
(* The payload of a delta for the add kernels is the dict [op, amount];    *)
(* for the IntegrationKernel it is the Python value to store.              *)
(***************************************************************************)
EXTENDS Integers, Sequences, FiniteSets, TLC

VARIABLES rt, ctx, outcome, rtB, ctxB, outcomeB, history, heap

vars == <<rt, ctx, outcome, rtB, ctxB, outcomeB, history, heap>>

(***************************************************************************)
(* Bounds of the model                                                     *)
(***************************************************************************)
\* longest pending_deltas list handed to one run_tick call
MaxLen == 2
\* number of run_tick calls made on one Runtime
MaxTicks == 2
\* the small max_deltas_per_tick a Runtime may be configured with
SmallMaxDeltas == 1

(***************************************************************************)
(* Program constants                                                       *)
(***************************************************************************)
DefaultMaxDeltas == 1024
MaxParents == 64
NoStep == -2

(***************************************************************************)
(* Python values                                                           *)
(***************************************************************************)
PyNone == [kind |-> "none", n |-> 0]

PyInt(i) == [kind |-> "int", n |-> i]

PyFloat(i) == [kind |-> "float", n |-> i]

\* a str, by its number in StrValues; the empty string is number 0
PyStr(i) == [kind |-> "str", n |-> i]

StrValues == <<"INVALID", "keen", "tran">>

\* the text of a value inside an f-string
PyText(v) ==
    IF v.kind = "str" THEN (IF v.n = 0 THEN "" ELSE StrValues[v.n])
    ELSE IF v.kind = "none" THEN "None"
    ELSE ToString(v.n)

\* int + int is an int; any float operand makes the sum a float
PyAdd(a, b) ==
    [kind |-> IF a.kind = "int" /\ b.kind = "int" THEN "int" ELSE "float",
     n |-> a.n + b.n]

PyNeg(a) == [kind |-> a.kind, n |-> 0 - a.n]

Max(a, b) == IF a >= b THEN a ELSE b

\* dict.get(k): None when the key is absent
StateGet(state, k) == IF k \in DOMAIN state THEN state[k] ELSE PyNone

\* dict[k] = v
StateSet(state, k, v) ==
    [x \in DOMAIN state \cup {k} |-> IF x = k THEN v ELSE state[x]]

\* Python str comparison, on the strings that occur in the model
StringOrder == <<"", "agent", "d1", "d2", "user", "world/value">>

Rank(s) == CHOOSE i \in 1..Len(StringOrder) : StringOrder[i] = s

StrLess(a, b) == Rank(a) < Rank(b)

\* round(float(x), 6) on a count of 1e-7 units; an exact tie goes to even
Round6(t) ==
    LET q == t \div 10
        r == t % 10
    IN  IF r < 5 THEN 10 * q
        ELSE IF r > 5 THEN 10 * (q + 1)
        ELSE IF q % 2 = 0 THEN 10 * q ELSE 10 * (q + 1)

(***************************************************************************)
(* Delta, Snapshot                                                         *)
(***************************************************************************)
Delta(id, source_id, entity_ref, temporal_index, temporal_scope, parent_ids, payload) ==
    [id |-> id, source_id |-> source_id, entity_ref |-> entity_ref,
     temporal_index |-> temporal_index, temporal_scope |-> temporal_scope,
     parent_ids |-> parent_ids, payload |-> payload]

NoDelta == Delta("<None>", "", "", 0, <<0, 0>>, <<>>, [op |-> "none", amount |-> PyNone])

Snapshot(id, tick, zon4d_state, hash32, anchor_type) ==
    [id |-> id, tick |-> tick, zon4d_state |-> zon4d_state,
     hash32 |-> hash32, anchor_type |-> anchor_type]

NoSnapshot == Snapshot("<None>", 0 - 1, [k \in {"value"} |-> PyNone], "", "")

(***************************************************************************)
(* Anchor Store: TestAnchorStore of test_runtime_loop.py, and the one of    *)
(* test_full_integration.py whose initial snapshot has an empty state      *)
(***************************************************************************)
ImmutableAnchor ==
    Snapshot("snap_0", 0, [k \in {"value"} |-> PyInt(0)], "hash0", "immutable")

LoadInitialSnapshot == ImmutableAnchor

LoadLastImmutableAnchor == ImmutableAnchor

IntegrationInitial == Snapshot("snap_0", 0, [k \in {} |-> PyNone], "<None>", "soft")

AnchorStores == {"TestAnchorStore", "IntegrationAnchorStore"}

InitialSnapshotOf(store) ==
    IF store = "IntegrationAnchorStore" THEN IntegrationInitial ELSE LoadInitialSnapshot

LastImmutableAnchorOf(store) ==
    IF store = "IntegrationAnchorStore" THEN IntegrationInitial
    ELSE LoadLastImmutableAnchor

(***************************************************************************)
(* Kernel: TestZON4DKernel of test_runtime_loop.py, BreachKernel whose      *)
(* validate_state is False, and the TestZON4DKernel of                     *)
(* test_full_integration.py (IntegrationKernel), which stores the payload  *)
(* of a delta at its entity_ref                                            *)
(***************************************************************************)
Kernels == {"TestZON4DKernel", "BreachKernel"}

IntegrationKernel == "IntegrationKernel"

\* the value "INVALID"
InvalidValue == PyStr(1)

\* ComputeInverseDelta whose inverse repeats the delta
ComputeInverseDeltaRepeats(kernel, state, d) ==
    IF kernel = IntegrationKernel
       THEN Delta("inv_" \o d.id, "inverse", d.entity_ref, d.temporal_index,
                  d.temporal_scope, <<d.id>>, d.payload)
    ELSE IF d.payload.amount.kind = "none" THEN NoDelta
    ELSE Delta("inv_" \o d.id, d.source_id, d.entity_ref, d.temporal_index,
               d.temporal_scope, <<>>,
               [op |-> "add", amount |-> d.payload.amount])

\* compute_inverse_delta.  The add kernels: None when the payload has no
\* amount.  IntegrationKernel: the payload is the old value at entity_ref.
ComputeInverseDelta(kernel, state, d) ==
    IF kernel = IntegrationKernel
       THEN Delta("inv_" \o d.id, "inverse", d.entity_ref, d.temporal_index,
                  d.temporal_scope, <<d.id>>, StateGet(state, d.entity_ref))
    ELSE IF d.payload.amount.kind = "none" THEN NoDelta
    ELSE Delta("inv_" \o d.id, d.source_id, d.entity_ref, d.temporal_index,
               d.temporal_scope, <<>>,
               [op |-> "add", amount |-> PyNeg(d.payload.amount)])

\* apply_delta_in_place.  The add kernels:
\* state["value"] = state.get("value", 0) + amount.  IntegrationKernel:
\* state[entity_ref] = payload.
ApplyDeltaInPlace(kernel, state, d) ==
    IF kernel = IntegrationKernel THEN StateSet(state, d.entity_ref, d.payload)
    ELSE LET amt == IF d.payload.amount.kind = "none" THEN PyInt(0)
                    ELSE d.payload.amount
             old == IF "value" \in DOMAIN state THEN state["value"] ELSE PyInt(0)
         IN  StateSet(state, "value", PyAdd(old, amt))

ValidateState(kernel, state) ==
    IF kernel = "BreachKernel" THEN FALSE
    ELSE IF kernel = IntegrationKernel
       THEN \A k \in DOMAIN state : state[k] # InvalidValue
    ELSE StateGet(state, "value").kind = "int"

(***************************************************************************)
(* Step 2 and step 3: structural validation, normalisation, ordering       *)
(***************************************************************************)
\* ValidateDeltaStructure that also refuses exactly MaxParents parents
ValidateDeltaStructureStrictParents(d) ==
    IF d.id = "" \/ d.source_id = "" \/ d.entity_ref = "" THEN FALSE
    ELSE IF d.temporal_scope[1] > d.temporal_scope[2] THEN FALSE
    ELSE IF Len(d.parent_ids) >= MaxParents THEN FALSE
    ELSE TRUE

ValidateDeltaStructure(d) ==
    IF d.id = "" \/ d.source_id = "" \/ d.entity_ref = "" THEN FALSE
    ELSE IF d.temporal_scope[1] > d.temporal_scope[2] THEN FALSE
    ELSE IF Len(d.parent_ids) > MaxParents THEN FALSE
    ELSE TRUE

NormalizedDelta(d) ==
    Delta(d.id, d.source_id, d.entity_ref, Round6(d.temporal_index),
          d.temporal_scope, d.parent_ids, d.payload)

\* SortKeyLess with the temporal_index comparison turned round
SortKeyLessDescending(a, b) ==
    LET da == Len(a.parent_ids)
        db == Len(b.parent_ids)
    IN  \/ a.temporal_index > b.temporal_index
        \/ /\ a.temporal_index = b.temporal_index
           /\ \/ da < db
              \/ /\ da = db
                 /\ \/ StrLess(a.source_id, b.source_id)
                    \/ /\ a.source_id = b.source_id
                       /\ StrLess(a.id, b.id)

\* SortKeyLess without the causal depth
SortKeyLessNoDepth(a, b) ==
    \/ a.temporal_index < b.temporal_index
    \/ /\ a.temporal_index = b.temporal_index
       /\ \/ StrLess(a.source_id, b.source_id)
          \/ /\ a.source_id = b.source_id
             /\ StrLess(a.id, b.id)

\* sort_key(a) < sort_key(b): tuples (temporal_index, depth, source_id, id)
SortKeyLess(a, b) ==
    LET da == Len(a.parent_ids)
        db == Len(b.parent_ids)
    IN  \/ a.temporal_index < b.temporal_index
        \/ /\ a.temporal_index = b.temporal_index
           /\ \/ da < db
              \/ /\ da = db
                 /\ \/ StrLess(a.source_id, b.source_id)
                    \/ /\ a.source_id = b.source_id
                       /\ StrLess(a.id, b.id)

\* sorted(): stable, an element goes after every element whose key is not greater
RECURSIVE InsertSorted(_, _)
InsertSorted(d, s) ==
    IF s = <<>> THEN <<d>>
    ELSE IF SortKeyLess(d, Head(s)) THEN <<d>> \o s
    ELSE <<Head(s)>> \o InsertSorted(d, Tail(s))

RECURSIVE Sorted(_)
Sorted(s) ==
    IF s = <<>> THEN <<>>
    ELSE InsertSorted(s[Len(s)], Sorted(SubSeq(s, 1, Len(s) - 1)))

(***************************************************************************)
(* TickContext, alerts, breach helpers                                     *)
(*   pending_deltas : the pending_deltas argument of the call              *)
(*   calls  : the collaborator calls and assignments of current_snapshot   *)
(*            made during the tick, in execution order                     *)
(*   raised : the exception propagating out of the current statement       *)
(*   views_arg, caller_views : the caller's domain_views mapping as it was *)
(*            passed, and as it is now; views_shared says whether          *)
(*            ctx.domain_views is that very mapping                        *)
(*   performer_calls, sink_calls : the arguments of each performer.step    *)
(*            and schedule_performance call of the tick                    *)
(*   kernel_calls : the kernel calls of step 6 with the delta and the      *)
(*            state each was passed                                        *)
(***************************************************************************)
EmptyViews == [v \in {} |-> ""]

TickContext(tick_id, wall_clock_ts, snapshot_in, delta_time, domain_views) ==
    [tick_id |-> tick_id, wall_clock_ts |-> wall_clock_ts,
     snapshot_in |-> snapshot_in, snapshot_out |-> NoSnapshot,
     deltas_in |-> <<>>, deltas_ordered |-> <<>>, deltas_accepted |-> <<>>,
     deltas_rejected |-> <<>>, inverse_deltas |-> <<>>,
     alerts |-> <<>>, fenced |-> FALSE, breached |-> FALSE,
     breach_step |-> NoStep, timeline_hash_ok |-> TRUE,
     delta_time |-> delta_time, domain_views |-> domain_views,
     performance_tasks |-> <<>>,
     pending_deltas |-> <<>>,
     views_arg |-> domain_views, caller_views |-> domain_views,
     views_shared |-> FALSE,
     performer_calls |-> <<>>, sink_calls |-> <<>>, kernel_calls |-> <<>>,
     calls |-> <<>>, raised |-> "none", exc_msg |-> ""]

NoCtx == TickContext(0, 0, NoSnapshot, 0, EmptyViews)

\* Alert that does not stamp the entry with the tick
AlertUnstamped(c, level, step, message) ==
    [c EXCEPT !.alerts = Append(@, [level |-> level, step |-> step,
                                    message |-> message, tick |-> 0,
                                    ts |-> c.wall_clock_ts])]

Alert(c, level, step, message) ==
    [c EXCEPT !.alerts = Append(@, [level |-> level, step |-> step,
                                    message |-> message, tick |-> c.tick_id,
                                    ts |-> c.wall_clock_ts])]

Called(c, name) == [c EXCEPT !.calls = Append(@, name)]

\* step 6 calls the kernel's method name with delta and state
CalledKernel(c, name, delta, state) ==
    [Called(c, name) EXCEPT !.kernel_calls =
        Append(@, [name |-> name, delta |-> delta, state |-> state])]

\* how many times name was called
Count(calls, name) == Cardinality({i \in DOMAIN calls : calls[i] = name})

Raise(c, kind, msg) == [c EXCEPT !.raised = kind, !.exc_msg = msg]

\* ctx.breach_step or -1
StepOr(step) == IF step = NoStep \/ step = 0 THEN 0 - 1 ELSE step

\* Breach that records the alert and the step but does not flag the tick
BreachAlertOnly(c, step, message) ==
    Alert([Called(c, "_breach") EXCEPT !.breach_step = step],
          "CRITICAL", step, message)

\* Breach that flags the tick and alerts but does not record the step
BreachStepless(c, step, message) ==
    Alert([Called(c, "_breach") EXCEPT !.breached = TRUE], "CRITICAL", step, message)

Breach(c, step, message) ==
    Alert([Called(c, "_breach") EXCEPT !.breached = TRUE, !.breach_step = step],
          "CRITICAL", step, message)

MarkBreach(c, reason) ==
    Alert([Called(c, "_mark_breach") EXCEPT !.breached = TRUE],
          "CRITICAL", StepOr(c.breach_step), "Runtime breach: " \o reason)

(***************************************************************************)
(* Behaviour of the collaborators during one call: what timeline_hash_ok   *)
(* answers at tick init and at rollback, and which collaborator call, if   *)
(* any, raises, and what it raises.                                        *)
(***************************************************************************)
Sites == {"hash_init", "inverse", "apply", "validate", "views",
          "performer", "sink", "hash_rb", "load_anchor"}

NoFault == [site |-> "none", kind |-> "none"]

\* a RuntimeError or another exception from a call inside the try block, a
\* RuntimeError from a call outside it, any failure of view generation
Faults ==
    {NoFault}
    \cup [site : {"inverse", "apply", "validate", "performer", "sink"},
          kind : {"RuntimeError", "Exception"}]
    \cup [site : {"hash_init", "hash_rb", "load_anchor"}, kind : {"RuntimeError"}]
    \cup [site : {"views"}, kind : {"Exception", "ImportError"}]

AllEnvs == [hash_init : BOOLEAN, hash_rb : BOOLEAN, fault : Faults]

\* TestAnchorStore answers timeline_hash_ok from its current_hash_ok field
Envs == {e \in AllEnvs : e.hash_init = e.hash_rb}

FaultAt(env, site) == env.fault.site = site

CollaboratorMsg == "collaborator failure"

(***************************************************************************)
(* Clip, Track, SceneTrack                                                 *)
(***************************************************************************)
Clip(id, type, start_time) == [id |-> id, type |-> type, start_time |-> start_time]

Track(id, priority, layering_mode) ==
    [id |-> id, priority |-> priority, layering_mode |-> layering_mode,
     clips |-> <<>>, triggered_clips |-> {}]

NewSceneTrack == [id |-> "main_scene", active |-> TRUE, scene_time |-> 0, tracks |-> <<>>]

\* a SceneTrack the host has switched off
PausedSceneTrack == [NewSceneTrack EXCEPT !.active = FALSE]

(***************************************************************************)
(* The Runtime                                                             *)
(***************************************************************************)
\* performer says whether a PerformerEngine is attached; scene_track is its
\* SceneTrack, paused on the Runtime of test_runtime_loop.py; task_log is the
\* log of the TestPerformanceABI, left empty by the NoopPerformanceABI;
\* timeline is the list append_snapshot of the TestAnchorStore appends to
NewRuntime(kernel, max_deltas_per_tick, performer) ==
    [tick_counter |-> 0,
     current_snapshot |-> LoadInitialSnapshot,
     max_deltas_per_tick |-> max_deltas_per_tick,
     anchor_store |-> "TestAnchorStore",
     timeline |-> <<ImmutableAnchor>>,
     kernel |-> kernel,
     performer |-> performer,
     scene_track |-> PausedSceneTrack,
     performance_abi |-> "NoopPerformanceABI",
     task_log |-> <<>>,
     last_wall_clock_ts |-> PyNone]

\* the Runtime of test_full_integration.py
NewIntegrationRuntime(max_deltas_per_tick, performer) ==
    [NewRuntime(IntegrationKernel, max_deltas_per_tick, performer)
       EXCEPT !.anchor_store = "IntegrationAnchorStore",
              !.timeline = <<>>,
              !.scene_track = NewSceneTrack,
              !.performance_abi = "TestPerformanceABI",
              !.current_snapshot = InitialSnapshotOf("IntegrationAnchorStore")]

\* AllocSnapshotId that hands out the same id at every tick
AllocSnapshotIdFixed(tick_id) == "snap_0"

AllocSnapshotId(tick_id) == "snap_" \o ToString(tick_id)

\* Step1Init that does not count a tick whose timeline hash check fails
Step1InitReusesBreachedTick(r, pending_deltas, domain_views, explicit_delta_time, now, env) ==
    LET dt == IF explicit_delta_time.kind # "none"
                 THEN Max(explicit_delta_time.n, 0)
              ELSE IF r.last_wall_clock_ts.kind = "none" THEN 0
              ELSE Max(now - r.last_wall_clock_ts.n, 0)
        r1 == [r EXCEPT !.tick_counter = IF env.hash_init THEN @ + 1 ELSE @,
                        !.last_wall_clock_ts = PyFloat(now)]
        c0 == [TickContext(r1.tick_counter, now, r.current_snapshot, dt, domain_views)
                 EXCEPT !.deltas_in = pending_deltas,
                        !.pending_deltas = pending_deltas]
        c1 == Called(c0, "timeline_hash_ok")
        c2 == [c1 EXCEPT !.timeline_hash_ok = env.hash_init]
    IN  IF FaultAt(env, "hash_init")
           THEN [rt |-> r1, ctx |-> Raise(c1, env.fault.kind, CollaboratorMsg)]
        ELSE IF ~c2.timeline_hash_ok
           THEN [rt |-> r1, ctx |-> Breach(c2, 1, "Timeline hash mismatch at Tick init")]
        ELSE [rt |-> r1, ctx |-> c2]

\* Step1Init that numbers the tick by the wall clock
Step1InitClockTick(r, pending_deltas, domain_views, explicit_delta_time, now, env) ==
    LET dt == IF explicit_delta_time.kind # "none"
                 THEN Max(explicit_delta_time.n, 0)
              ELSE IF r.last_wall_clock_ts.kind = "none" THEN 0
              ELSE Max(now - r.last_wall_clock_ts.n, 0)
        r1 == [r EXCEPT !.tick_counter = @ + 1,
                        !.last_wall_clock_ts = PyFloat(now)]
        c0 == [TickContext(r1.tick_counter + now, now, r.current_snapshot, dt, domain_views)
                 EXCEPT !.deltas_in = pending_deltas,
                        !.pending_deltas = pending_deltas]
        c1 == Called(c0, "timeline_hash_ok")
        c2 == [c1 EXCEPT !.timeline_hash_ok = env.hash_init]
    IN  IF FaultAt(env, "hash_init")
           THEN [rt |-> r1, ctx |-> Raise(c1, env.fault.kind, CollaboratorMsg)]
        ELSE IF ~c2.timeline_hash_ok
           THEN [rt |-> r1, ctx |-> Breach(c2, 1, "Timeline hash mismatch at Tick init")]
        ELSE [rt |-> r1, ctx |-> c2]

\* STEP 1; returns the Runtime and the new context
\* Step1Init that keeps the deltas beyond max_deltas_per_tick on the Runtime
\* and queues them in front of the deltas of the next call
Step1InitDefersOverflow(r, pending_deltas, domain_views, explicit_delta_time, now, env) ==
    LET dt == IF explicit_delta_time.kind # "none"
                 THEN Max(explicit_delta_time.n, 0)
              ELSE IF r.last_wall_clock_ts.kind = "none" THEN 0
              ELSE Max(now - r.last_wall_clock_ts.n, 0)
        queue == (IF "deferred" \in DOMAIN r THEN r.deferred ELSE <<>>) \o pending_deltas
        overflow == IF Len(queue) > r.max_deltas_per_tick
                       THEN SubSeq(queue, r.max_deltas_per_tick + 1, Len(queue))
                    ELSE <<>>
        r1 == [k \in DOMAIN r \cup {"deferred"} |->
                  IF k = "deferred" THEN overflow
                  ELSE IF k = "tick_counter" THEN r.tick_counter + 1
                  ELSE IF k = "last_wall_clock_ts" THEN PyFloat(now)
                  ELSE r[k]]
        c0 == [TickContext(r1.tick_counter, now, r.current_snapshot, dt, domain_views)
                 EXCEPT !.deltas_in = queue,
                        !.pending_deltas = pending_deltas]
        c1 == Called(c0, "timeline_hash_ok")
        c2 == [c1 EXCEPT !.timeline_hash_ok = env.hash_init]
    IN  IF FaultAt(env, "hash_init")
           THEN [rt |-> r1, ctx |-> Raise(c1, env.fault.kind, CollaboratorMsg)]
        ELSE IF ~c2.timeline_hash_ok
           THEN [rt |-> r1, ctx |-> Breach(c2, 1, "Timeline hash mismatch at Tick init")]
        ELSE [rt |-> r1, ctx |-> c2]

Step1Init(r, pending_deltas, domain_views, explicit_delta_time, now, env) ==
    LET dt == IF explicit_delta_time.kind # "none"
                 THEN Max(explicit_delta_time.n, 0)
              ELSE IF r.last_wall_clock_ts.kind = "none" THEN 0
              ELSE Max(now - r.last_wall_clock_ts.n, 0)
        r1 == [r EXCEPT !.tick_counter = @ + 1,
                        !.last_wall_clock_ts = PyFloat(now)]
        c0 == [TickContext(r1.tick_counter, now, r.current_snapshot, dt, domain_views)
                 EXCEPT !.deltas_in = pending_deltas,
                        !.pending_deltas = pending_deltas]
        c1 == Called(c0, "timeline_hash_ok")
        c2 == [c1 EXCEPT !.timeline_hash_ok = env.hash_init]
    IN  IF FaultAt(env, "hash_init")
           THEN [rt |-> r1, ctx |-> Raise(c1, env.fault.kind, CollaboratorMsg)]
        ELSE IF ~c2.timeline_hash_ok
           THEN [rt |-> r1, ctx |-> Breach(c2, 1, "Timeline hash mismatch at Tick init")]
        ELSE [rt |-> r1, ctx |-> c2]

\* IngestLoop that reports a malformed delta and keeps it all the same
RECURSIVE IngestLoopKeepsRejected(_, _, _)
IngestLoopKeepsRejected(c, ds, valid) ==
    IF ds = <<>> THEN [c EXCEPT !.deltas_in = valid]
    ELSE LET d == Head(ds)
         IN  IF ValidateDeltaStructure(d)
                THEN IngestLoopKeepsRejected(c, Tail(ds), Append(valid, NormalizedDelta(d)))
             ELSE IngestLoopKeepsRejected(
                    Alert([c EXCEPT !.deltas_rejected = Append(@, d)],
                          "WARNING", 2, "Rejected malformed Delta " \o d.id),
                    Tail(ds), Append(valid, NormalizedDelta(d)))

\* the validation loop of step 2 over the (fenced) deltas_in
RECURSIVE IngestLoop(_, _, _)
IngestLoop(c, ds, valid) ==
    IF ds = <<>> THEN [c EXCEPT !.deltas_in = valid]
    ELSE LET d == Head(ds)
         IN  IF ValidateDeltaStructure(d)
                THEN IngestLoop(c, Tail(ds), Append(valid, NormalizedDelta(d)))
             ELSE IngestLoop(
                    Alert([c EXCEPT !.deltas_rejected = Append(@, d)],
                          "WARNING", 2, "Rejected malformed Delta " \o d.id),
                    Tail(ds), valid)

\* Step2Ingest that raises the fence but keeps every submitted delta
Step2IngestNoTruncate(r, c) ==
    IF c.breached THEN c
    ELSE LET n == Len(c.deltas_in)
             overflow == n - r.max_deltas_per_tick
             c1 == IF n > r.max_deltas_per_tick
                      THEN [Alert(c, "WARNING", 2,
                                  "Temporal fence: " \o ToString(overflow)
                                     \o " Deltas pushed to next Tick")
                              EXCEPT !.fenced = TRUE]
                   ELSE c
         IN  IngestLoop(c1, c1.deltas_in, <<>>)

Step2Ingest(r, c) ==
    IF c.breached THEN c
    ELSE LET n == Len(c.deltas_in)
             overflow == n - r.max_deltas_per_tick
             c1 == IF n > r.max_deltas_per_tick
                      THEN [Alert([c EXCEPT !.deltas_in =
                                       SubSeq(@, 1, r.max_deltas_per_tick)],
                                  "WARNING", 2,
                                  "Temporal fence: " \o ToString(overflow)
                                     \o " Deltas pushed to next Tick")
                              EXCEPT !.fenced = TRUE]
                   ELSE c
         IN  IngestLoop(c1, c1.deltas_in, <<>>)

\* Step3TemporalOrder that keeps the submission order
Step3SubmissionOrder(c) ==
    IF c.breached THEN c
    ELSE [c EXCEPT !.deltas_ordered = c.deltas_in]

Step3TemporalOrder(c) ==
    IF c.breached THEN c
    ELSE [c EXCEPT !.deltas_ordered = Sorted(c.deltas_in)]

(***************************************************************************)
(* Step 6: delta application on a copy of snapshot_in's state              *)
(***************************************************************************)
\* ApplyLoop that applies a delta before it asks for its inverse
RECURSIVE ApplyLoopApplyFirst(_, _, _, _, _, _)
ApplyLoopApplyFirst(kernel, c, env, ds, new_state, inverse_deltas) ==
    IF ds = <<>>
       THEN [ctx |-> c, new_state |-> new_state, inverse_deltas |-> inverse_deltas]
    ELSE LET d == Head(ds)
             c1 == CalledKernel(c, "apply_delta_in_place", d, new_state)
             st == ApplyDeltaInPlace(kernel, new_state, d)
             c2 == CalledKernel(c1, "compute_inverse_delta", d, new_state)
             inv == ComputeInverseDelta(kernel, new_state, d)
         IN  IF FaultAt(env, "apply")
                THEN [ctx |-> Raise(c1, env.fault.kind, CollaboratorMsg),
                      new_state |-> new_state, inverse_deltas |-> inverse_deltas]
             ELSE IF FaultAt(env, "inverse")
                THEN [ctx |-> Raise(c2, env.fault.kind, CollaboratorMsg),
                      new_state |-> st, inverse_deltas |-> inverse_deltas]
             ELSE IF inv = NoDelta
                THEN [ctx |-> Raise(Breach(c2, 6, "Cannot compute inverse for Delta " \o d.id),
                                    "RuntimeError", "Inverse Delta computation failed"),
                      new_state |-> st, inverse_deltas |-> inverse_deltas]
             ELSE ApplyLoopApplyFirst(kernel, c2, env, Tail(ds), st,
                                      Append(inverse_deltas, inv))

\* ApplyLoop that computes every inverse against the state of snapshot_in
RECURSIVE ApplyLoopInverseOfSnapshotIn(_, _, _, _, _, _)
ApplyLoopInverseOfSnapshotIn(kernel, c, env, ds, new_state, inverse_deltas) ==
    IF ds = <<>>
       THEN [ctx |-> c, new_state |-> new_state, inverse_deltas |-> inverse_deltas]
    ELSE LET d == Head(ds)
             c1 == CalledKernel(c, "compute_inverse_delta", d, c.snapshot_in.zon4d_state)
             inv == ComputeInverseDelta(kernel, c.snapshot_in.zon4d_state, d)
             c2 == CalledKernel(c1, "apply_delta_in_place", d, new_state)
         IN  IF FaultAt(env, "inverse")
                THEN [ctx |-> Raise(c1, env.fault.kind, CollaboratorMsg),
                      new_state |-> new_state, inverse_deltas |-> inverse_deltas]
             ELSE IF inv = NoDelta
                THEN [ctx |-> Raise(Breach(c1, 6, "Cannot compute inverse for Delta " \o d.id),
                                    "RuntimeError", "Inverse Delta computation failed"),
                      new_state |-> new_state, inverse_deltas |-> inverse_deltas]
             ELSE IF FaultAt(env, "apply")
                THEN [ctx |-> Raise(c2, env.fault.kind, CollaboratorMsg),
                      new_state |-> new_state, inverse_deltas |-> inverse_deltas]
             ELSE ApplyLoopInverseOfSnapshotIn(kernel, c2, env, Tail(ds),
                            ApplyDeltaInPlace(kernel, new_state, d),
                            Append(inverse_deltas, inv))

\* the for loop of step 6; stops at the first failure with c.raised set
RECURSIVE ApplyLoop(_, _, _, _, _, _)
ApplyLoop(kernel, c, env, ds, new_state, inverse_deltas) ==
    IF ds = <<>>
       THEN [ctx |-> c, new_state |-> new_state, inverse_deltas |-> inverse_deltas]
    ELSE LET d == Head(ds)
             c1 == CalledKernel(c, "compute_inverse_delta", d, new_state)
             inv == ComputeInverseDelta(kernel, new_state, d)
             c2 == CalledKernel(c1, "apply_delta_in_place", d, new_state)
         IN  IF FaultAt(env, "inverse")
                THEN [ctx |-> Raise(c1, env.fault.kind, CollaboratorMsg),
                      new_state |-> new_state, inverse_deltas |-> inverse_deltas]
             ELSE IF inv = NoDelta
                THEN [ctx |-> Raise(Breach(c1, 6, "Cannot compute inverse for Delta " \o d.id),
                                    "RuntimeError", "Inverse Delta computation failed"),
                      new_state |-> new_state, inverse_deltas |-> inverse_deltas]
             ELSE IF FaultAt(env, "apply")
                THEN [ctx |-> Raise(c2, env.fault.kind, CollaboratorMsg),
                      new_state |-> new_state, inverse_deltas |-> inverse_deltas]
             ELSE ApplyLoop(kernel, c2, env, Tail(ds),
                            ApplyDeltaInPlace(kernel, new_state, d),
                            Append(inverse_deltas, inv))

\* Step6ApplyDeltas that records the inverse deltas last first
Step6ApplyDeltasInverseReversed(r, c, env) ==
    IF c.breached THEN c
    ELSE IF c.snapshot_in = NoSnapshot
       THEN Raise(Breach(c, 6, "No input Snapshot to mutate"),
                  "RuntimeError", "Missing snapshot_in")
    ELSE LET l == ApplyLoop(r.kernel, c, env, c.deltas_accepted,
                            c.snapshot_in.zon4d_state, <<>>)
             c1 == CalledKernel(l.ctx, "validate_state", NoDelta, l.new_state)
             n == Len(l.inverse_deltas)
         IN  IF l.ctx.raised # "none" THEN l.ctx
             ELSE IF FaultAt(env, "validate")
                THEN Raise(c1, env.fault.kind, CollaboratorMsg)
             ELSE IF ~ValidateState(r.kernel, l.new_state)
                THEN Raise(Breach(c1, 6, "ZON4D state validation failed"),
                           "RuntimeError", "ZON4D validation failed after mutations")
             ELSE [c1 EXCEPT !.snapshot_out =
                                 Snapshot(AllocSnapshotId(c.tick_id), c.tick_id,
                                          l.new_state, "<None>", "soft"),
                             !.inverse_deltas =
                                 [i \in 1..n |-> l.inverse_deltas[n + 1 - i]]]

\* Step6ApplyDeltas that stores the inverse deltas before it validates
Step6ApplyDeltasStoresEarly(r, c, env) ==
    IF c.breached THEN c
    ELSE IF c.snapshot_in = NoSnapshot
       THEN Raise(Breach(c, 6, "No input Snapshot to mutate"),
                  "RuntimeError", "Missing snapshot_in")
    ELSE LET l == ApplyLoop(r.kernel, c, env, c.deltas_accepted,
                            c.snapshot_in.zon4d_state, <<>>)
             c1 == CalledKernel(l.ctx, "validate_state", NoDelta, l.new_state)
         IN  IF l.ctx.raised # "none" THEN l.ctx
             ELSE IF FaultAt(env, "validate")
                THEN Raise(c1, env.fault.kind, CollaboratorMsg)
             ELSE IF ~ValidateState(r.kernel, l.new_state)
                THEN Raise(Breach([c1 EXCEPT !.inverse_deltas = l.inverse_deltas],
                                  6, "ZON4D state validation failed"),
                           "RuntimeError", "ZON4D validation failed after mutations")
             ELSE [c1 EXCEPT !.snapshot_out =
                                 Snapshot(AllocSnapshotId(c.tick_id), c.tick_id,
                                          l.new_state, "<None>", "soft"),
                             !.inverse_deltas = l.inverse_deltas]

Step6ApplyDeltas(r, c, env) ==
    IF c.breached THEN c
    ELSE IF c.snapshot_in = NoSnapshot
       THEN Raise(Breach(c, 6, "No input Snapshot to mutate"),
                  "RuntimeError", "Missing snapshot_in")
    ELSE LET l == ApplyLoop(r.kernel, c, env, c.deltas_accepted,
                            c.snapshot_in.zon4d_state, <<>>)
             c1 == CalledKernel(l.ctx, "validate_state", NoDelta, l.new_state)
         IN  IF l.ctx.raised # "none" THEN l.ctx
             ELSE IF FaultAt(env, "validate")
                THEN Raise(c1, env.fault.kind, CollaboratorMsg)
             ELSE IF ~ValidateState(r.kernel, l.new_state)
                THEN Raise(Breach(c1, 6, "ZON4D state validation failed"),
                           "RuntimeError", "ZON4D validation failed after mutations")
             ELSE [c1 EXCEPT !.snapshot_out =
                                 Snapshot(AllocSnapshotId(c.tick_id), c.tick_id,
                                          l.new_state, "<None>", "soft"),
                             !.inverse_deltas = l.inverse_deltas]

(***************************************************************************)
(* Step 10: domain views                                                   *)
(***************************************************************************)
Truthy(v) == v.kind # "none" /\ v.n # 0

SpatialKeys == {"spatial/position"}

ApKeys == {"ap/rules"}

\* {k: v for k, v in state.items() if k in keys}
SubDict(state, keys) == [k \in DOMAIN state \cap keys |-> state[k]]

\* a view is given by the state values it is built from; the remaining fields
\* of an event (emotion, intensity, duration, volume, layer, blend, offset)
\* come from keys no delta of the model writes, so they are the defaults
NarrativeView(state) ==
    [active_conversations |->
        <<[speaker_id |-> StateGet(state, "narrative/active_speaker"),
           line_id |-> StateGet(state, "narrative/active_line")]>>]

AudioView(state) ==
    [music_events |-> IF Truthy(StateGet(state, "audio/music"))
                         THEN <<[asset_id |-> StateGet(state, "audio/music")]>>
                      ELSE <<>>,
     sfx_events |-> IF Truthy(StateGet(state, "audio/sfx"))
                       THEN <<[asset_id |-> StateGet(state, "audio/sfx")]>>
                    ELSE <<>>]

AnimationView(state) ==
    [body_events |-> IF /\ Truthy(StateGet(state, "animation/rig"))
                        /\ Truthy(StateGet(state, "animation/pose"))
                        THEN <<[rig_id |-> StateGet(state, "animation/rig"),
                                pose_id |-> StateGet(state, "animation/pose")]>>
                     ELSE <<>>,
     facial_events |-> IF /\ Truthy(StateGet(state, "animation/rig"))
                          /\ Truthy(StateGet(state, "animation/viseme_curve"))
                          THEN <<[rig_id |-> StateGet(state, "animation/rig"),
                                  viseme_curve_id |->
                                      StateGet(state, "animation/viseme_curve")]>>
                       ELSE <<>>]

\* the views generate_domain_views_from_state builds
GenerateDomainViewsFromState(state, tick_id) ==
    LET names ==
          {v \in {"narrative_view", "audio_view", "animation_view",
                  "spatial_view", "ap_rules_view"} :
             \/ /\ v = "narrative_view"
                /\ Truthy(StateGet(state, "narrative/active_speaker"))
                /\ Truthy(StateGet(state, "narrative/active_line"))
             \/ /\ v = "audio_view"
                /\ \/ AudioView(state).music_events # <<>>
                   \/ AudioView(state).sfx_events # <<>>
             \/ /\ v = "animation_view"
                /\ \/ AnimationView(state).body_events # <<>>
                   \/ AnimationView(state).facial_events # <<>>
             \/ /\ v = "spatial_view"
                /\ DOMAIN state \cap SpatialKeys # {}
             \/ /\ v = "ap_rules_view"
                /\ DOMAIN state \cap ApKeys # {}}
    IN  [v \in names |->
            CASE v = "narrative_view" -> NarrativeView(state)
              [] v = "audio_view" -> AudioView(state)
              [] v = "animation_view" -> AnimationView(state)
              [] v = "spatial_view" -> SubDict(state, SpatialKeys)
              [] OTHER -> SubDict(state, ApKeys)]

\* ViewsUpdate in which a key the caller supplied keeps the caller's value
ViewsUpdateCallerWins(a, b) ==
    [v \in DOMAIN a \cup DOMAIN b |-> IF v \in DOMAIN a THEN a[v] ELSE b[v]]

\* dict.update
ViewsUpdate(a, b) ==
    [v \in DOMAIN a \cup DOMAIN b |-> IF v \in DOMAIN b THEN b[v] ELSE a[v]]

Step10GenerateDomainViews(c, env) ==
    IF c.breached \/ c.snapshot_out = NoSnapshot THEN c
    ELSE LET c1 == Called(c, "generate_domain_views_from_state")
             post_delta_views ==
                 GenerateDomainViewsFromState(c.snapshot_out.zon4d_state, c.tick_id)
         IN  IF FaultAt(env, "views") /\ env.fault.kind = "ImportError"
                THEN Alert(c1, "WARNING", 10,
                       "domain_views module not available; skipping view generation")
             ELSE IF FaultAt(env, "views")
                THEN Alert(c1, "ERROR", 10,
                       "Domain view generation failed: " \o CollaboratorMsg)
             ELSE IF DOMAIN post_delta_views # {}
                THEN [c1 EXCEPT !.domain_views = ViewsUpdate(@, post_delta_views),
                                !.caller_views =
                                    IF c.views_shared
                                       THEN ViewsUpdate(@, post_delta_views)
                                    ELSE @]
             ELSE c1

(***************************************************************************)
(* The PerformerEngine: its SceneTrack, the three engines that turn views  *)
(* into clips, and the conversion of newly started clips into tasks.       *)
(* tracks is the dict of tracks in insertion order; the write-only         *)
(* tick_to_scene_time map is left out.  Times are integers, in the unit    *)
(* of delta_time.                                                          *)
(***************************************************************************)
\* self.clips.sort(key=lambda c: c.start_time): stable
RECURSIVE InsertByStart(_, _)
InsertByStart(clip, s) ==
    IF s = <<>> THEN <<clip>>
    ELSE IF clip.start_time < Head(s).start_time THEN <<clip>> \o s
    ELSE <<Head(s)>> \o InsertByStart(clip, Tail(s))

RECURSIVE SortedByStart(_)
SortedByStart(s) ==
    IF s = <<>> THEN <<>>
    ELSE InsertByStart(s[Len(s)], SortedByStart(SubSeq(s, 1, Len(s) - 1)))

TrackAddClip(track, clip) == [track EXCEPT !.clips = SortedByStart(Append(@, clip))]

\* position of the track in the dict, 0 when it is not there
TrackIndex(st, track_id) ==
    IF \E i \in DOMAIN st.tracks : st.tracks[i].id = track_id
       THEN CHOOSE i \in DOMAIN st.tracks : st.tracks[i].id = track_id
    ELSE 0

GetOrCreateTrack(st, track_id, priority, layering_mode) ==
    IF TrackIndex(st, track_id) = 0
       THEN [st EXCEPT !.tracks = Append(@, Track(track_id, priority, layering_mode))]
    ELSE st

SceneTrackAddClip(st, track_id, clip, priority, layering_mode) ==
    LET st1 == GetOrCreateTrack(st, track_id, priority, layering_mode)
    IN  [st1 EXCEPT !.tracks[TrackIndex(st1, track_id)] = TrackAddClip(@, clip)]

\* add_clip for each clip of clips in turn
RECURSIVE AddClips(_, _, _, _, _)
AddClips(st, track_id, clips, priority, layering_mode) ==
    IF clips = <<>> THEN st
    ELSE AddClips(SceneTrackAddClip(st, track_id, Head(clips), priority, layering_mode),
                  track_id, Tail(clips), priority, layering_mode)

\* AdvanceTime that starts the scene time again at each call
AdvanceTimeRestarts(st, delta_time) == [st EXCEPT !.scene_time = Max(delta_time, 0)]

\* the window is (scene_time before, scene_time after)
AdvanceTime(st, delta_time) == [st EXCEPT !.scene_time = @ + Max(delta_time, 0)]

\* GetNewClipsInWindow that does not remember what it returned
RECURSIVE GetNewClipsInWindowForgets(_, _, _, _, _)
GetNewClipsInWindowForgets(track, clips, start_t, end_t, new_clips) ==
    IF clips = <<>> THEN [track |-> track, new_clips |-> new_clips]
    ELSE LET clip == Head(clips)
         IN  IF start_t < clip.start_time /\ clip.start_time <= end_t
                THEN GetNewClipsInWindowForgets(track, Tail(clips), start_t, end_t,
                                                Append(new_clips, clip))
             ELSE GetNewClipsInWindowForgets(track, Tail(clips), start_t, end_t,
                                             new_clips)

\* the loop of get_new_clips_in_window over the remaining clips
RECURSIVE GetNewClipsInWindow(_, _, _, _, _)
GetNewClipsInWindow(track, clips, start_t, end_t, new_clips) ==
    IF clips = <<>> THEN [track |-> track, new_clips |-> new_clips]
    ELSE LET clip == Head(clips)
         IN  IF clip.id \in track.triggered_clips
                THEN GetNewClipsInWindow(track, Tail(clips), start_t, end_t, new_clips)
             ELSE IF start_t < clip.start_time /\ clip.start_time <= end_t
                THEN GetNewClipsInWindow(
                        [track EXCEPT !.triggered_clips = @ \cup {clip.id}],
                        Tail(clips), start_t, end_t, Append(new_clips, clip))
             ELSE GetNewClipsInWindow(track, Tail(clips), start_t, end_t, new_clips)

MapClipTypeToTaskType(clip_type) ==
    IF clip_type \in {"dialogue", "audio", "animation", "camera", "fx"} THEN clip_type
    ELSE "fx"

PerformanceTask(track, clip, tick_id) ==
    [id |-> clip.id \o "@" \o ToString(tick_id),
     tick_id |-> tick_id,
     scene_time |-> clip.start_time,
     task_type |-> MapClipTypeToTaskType(clip.type),
     track_id |-> track.id,
     clip_id |-> clip.id,
     priority |-> track.priority]

\* gather_new_tasks_for_window from track number i on
RECURSIVE GatherNewTasksForWindow(_, _, _, _, _, _)
GatherNewTasksForWindow(st, i, tick_id, window_start, window_end, tasks) ==
    IF i > Len(st.tracks) THEN [scene_track |-> st, tasks |-> tasks]
    ELSE LET g == GetNewClipsInWindow(st.tracks[i], st.tracks[i].clips,
                                      window_start, window_end, <<>>)
             new_tasks == [k \in DOMAIN g.new_clips |->
                              PerformanceTask(g.track, g.new_clips[k], tick_id)]
         IN  GatherNewTasksForWindow([st EXCEPT !.tracks[i] = g.track], i + 1, tick_id,
                                     window_start, window_end, tasks \o new_tasks)

\* DialogueEngine.update_from_narrative_view
UpdateFromNarrativeView(st, tick_id, scene_time, views) ==
    IF "narrative_view" \notin DOMAIN views THEN st
    ELSE LET convs == views["narrative_view"].active_conversations
             clips == [k \in DOMAIN convs |->
                          Clip("dlg_" \o PyText(convs[k].line_id) \o "_t" \o ToString(tick_id),
                               "dialogue", scene_time)]
         IN  AddClips(st, "dialogue", clips, 0, "exclusive")

\* AudioEngine._create_audio_clip for each event of a list
AudioClips(base_id, events, tick_id, scene_time) ==
    [k \in DOMAIN events |->
        Clip(base_id \o "_" \o PyText(events[k].asset_id) \o "_t" \o ToString(tick_id),
             "audio", scene_time)]

\* AudioEngine.update_from_audio_view
UpdateFromAudioView(st, tick_id, scene_time, views) ==
    IF "audio_view" \notin DOMAIN views THEN st
    ELSE LET v == views["audio_view"]
             st1 == AddClips(st, "music",
                             AudioClips("music", v.music_events, tick_id, scene_time),
                             1, "additive")
         IN  AddClips(st1, "sfx",
                      AudioClips("sfx", v.sfx_events, tick_id, scene_time),
                      1, "additive")

\* AnimationEngine.update_from_animation_view
UpdateFromAnimationView(st, tick_id, scene_time, views) ==
    IF "animation_view" \notin DOMAIN views THEN st
    ELSE LET v == views["animation_view"]
             body == [k \in DOMAIN v.body_events |->
                         Clip("anim_" \o PyText(v.body_events[k].rig_id) \o "_"
                                 \o PyText(v.body_events[k].pose_id)
                                 \o "_t" \o ToString(tick_id),
                              "animation", scene_time)]
             facial == [k \in DOMAIN v.facial_events |->
                           Clip("vis_" \o PyText(v.facial_events[k].rig_id) \o "_"
                                   \o PyText(v.facial_events[k].viseme_curve_id)
                                   \o "_t" \o ToString(tick_id),
                                "animation", scene_time)]
             st1 == AddClips(st, "animation", body, 1, "blend")
         IN  AddClips(st1, "facial", facial, 0, "additive")

\* PerformerEngine.step: the SceneTrack afterwards and the tasks returned
PerformerStep(st, tick_id, delta_time, domain_views) ==
    IF ~st.active THEN [scene_track |-> st, tasks |-> <<>>]
    ELSE LET window_start == st.scene_time
             st1 == AdvanceTime(st, delta_time)
             window_end == st1.scene_time
             st2 == UpdateFromNarrativeView(st1, tick_id, window_end, domain_views)
             st3 == UpdateFromAudioView(st2, tick_id, window_end, domain_views)
             st4 == UpdateFromAnimationView(st3, tick_id, window_end, domain_views)
         IN  GatherNewTasksForWindow(st4, 1, tick_id, window_start, window_end, <<>>)

(***************************************************************************)
(* Step 11                                                                 *)
(***************************************************************************)
\* schedule_performance of the sink the Runtime was constructed with
SchedulePerformance(r, tick_id, tasks) ==
    IF r.performance_abi = "TestPerformanceABI"
       THEN [r EXCEPT !.task_log =
                @ \o [k \in DOMAIN tasks |->
                         [tick |-> tick_id, task_id |-> tasks[k].id,
                          type |-> tasks[k].task_type,
                          scene_time |-> tasks[k].scene_time,
                          priority |-> tasks[k].priority]]]
    ELSE r

\* Step11SchedulePerformance that hands the sink an empty task list
Step11SchedulePerformanceDropsTasks(r, c, env) ==
    IF c.breached THEN [rt |-> r, ctx |-> c]
    ELSE IF ~r.performer
       THEN [rt |-> r,
             ctx |-> Alert(c, "INFO", 11,
                       "Tick complete (PerformerEngine not attached; performance no-op)")]
    ELSE LET c1 == Called([c EXCEPT !.performer_calls =
                              Append(@, [tick_id |-> c.tick_id,
                                         delta_time |-> c.delta_time,
                                         domain_views |-> c.domain_views])],
                          "performer.step")
             s == PerformerStep(r.scene_track, c.tick_id, c.delta_time, c.domain_views)
             r1 == [r EXCEPT !.scene_track = s.scene_track]
             c2 == [c1 EXCEPT !.performance_tasks = s.tasks]
             c3 == Called([c2 EXCEPT !.sink_calls =
                              Append(@, [tick_id |-> c.tick_id, tasks |-> <<>>])],
                          "schedule_performance")
         IN  IF FaultAt(env, "performer")
                THEN [rt |-> r, ctx |-> Raise(c1, env.fault.kind, CollaboratorMsg)]
             ELSE IF FaultAt(env, "sink")
                THEN [rt |-> r1, ctx |-> Raise(c3, env.fault.kind, CollaboratorMsg)]
             ELSE [rt |-> SchedulePerformance(r1, c.tick_id, <<>>),
                   ctx |-> Alert(c3, "INFO", 11,
                             "Tick complete (Performer scheduled "
                                \o ToString(Len(c2.performance_tasks)) \o " tasks)")]

\* STEP 11; returns the Runtime (whose performer's SceneTrack moved) and the context
Step11SchedulePerformance(r, c, env) ==
    IF c.breached THEN [rt |-> r, ctx |-> c]
    ELSE IF ~r.performer
       THEN [rt |-> r,
             ctx |-> Alert(c, "INFO", 11,
                       "Tick complete (PerformerEngine not attached; performance no-op)")]
    ELSE LET c1 == Called([c EXCEPT !.performer_calls =
                              Append(@, [tick_id |-> c.tick_id,
                                         delta_time |-> c.delta_time,
                                         domain_views |-> c.domain_views])],
                          "performer.step")
             SinkCalled(s) ==
                LET r1 == [r EXCEPT !.scene_track = s.scene_track]
                    c2 == [c1 EXCEPT !.performance_tasks = s.tasks]
                    c3 == Called([c2 EXCEPT !.sink_calls =
                              Append(@, [tick_id |-> c.tick_id,
                                         tasks |-> s.tasks])],
                          "schedule_performance")
                IN  IF FaultAt(env, "sink")
                       THEN [rt |-> r1, ctx |-> Raise(c3, env.fault.kind, CollaboratorMsg)]
                    ELSE [rt |-> SchedulePerformance(r1, c.tick_id, s.tasks),
                          ctx |-> Alert(c3, "INFO", 11,
                             "Tick complete (Performer scheduled "
                                \o ToString(Len(s.tasks)) \o " tasks)")]
         IN  IF FaultAt(env, "performer")
                THEN [rt |-> r, ctx |-> Raise(c1, env.fault.kind, CollaboratorMsg)]
             ELSE SinkCalled(PerformerStep(r.scene_track, c.tick_id, c.delta_time,
                                          c.domain_views))

(***************************************************************************)
(* Rollback                                                                *)
(***************************************************************************)
\* UseFast with the step window opened to step 1
UseFastFromStep1(c, step) ==
    /\ c.timeline_hash_ok
    /\ 1 <= step /\ step <= 7
    /\ Len(c.inverse_deltas) > 0

UseFast(c, step) ==
    /\ c.timeline_hash_ok
    /\ 2 <= step /\ step <= 7
    /\ Len(c.inverse_deltas) > 0

Reversed(s) == [i \in 1..Len(s) |-> s[Len(s) + 1 - i]]

\* for inv in reversed(ctx.inverse_deltas): apply_delta_in_place(state, inv)
RECURSIVE InverseLoop(_, _, _, _, _)
InverseLoop(kernel, c, env, invs, state) ==
    IF invs = <<>> THEN [ctx |-> c, state |-> state]
    ELSE LET c1 == Called(c, "apply_delta_in_place")
         IN  IF FaultAt(env, "apply")
                THEN [ctx |-> Raise(c1, env.fault.kind, CollaboratorMsg), state |-> state]
             ELSE InverseLoop(kernel, c1, env, Tail(invs),
                              ApplyDeltaInPlace(kernel, state, Head(invs)))

\* SlowPath that logs the restore but leaves current_snapshot as it is
SlowPathKeepsCurrent(r, c, env, step) ==
    LET c1 == Called(c, "load_last_immutable_anchor")
    IN  IF FaultAt(env, "load_anchor")
           THEN [rt |-> r, ctx |-> Raise(c1, env.fault.kind, CollaboratorMsg)]
        ELSE [rt |-> r,
              ctx |-> Alert(Called(c1, "assign_slow"), "INFO", step,
                            "Slow-path rollback: restored last immutable anchor")]

\* SlowPath that installs the anchor only when the kernel accepts its state
SlowPathValidated(r, c, env, step) ==
    LET c1 == Called(c, "load_last_immutable_anchor")
    IN  IF FaultAt(env, "load_anchor")
           THEN [rt |-> r, ctx |-> Raise(c1, env.fault.kind, CollaboratorMsg)]
        ELSE IF ~ValidateState(r.kernel, LastImmutableAnchorOf(r.anchor_store).zon4d_state)
           THEN [rt |-> r, ctx |-> c1]
        ELSE [rt |-> [r EXCEPT !.current_snapshot = LastImmutableAnchorOf(r.anchor_store)],
              ctx |-> Alert(Called(c1, "assign_slow"), "INFO", step,
                            "Slow-path rollback: restored last immutable anchor")]

\* slow path: restore the last immutable anchor
SlowPath(r, c, env, step) ==
    LET c1 == Called(c, "load_last_immutable_anchor")
    IN  IF FaultAt(env, "load_anchor")
           THEN [rt |-> r, ctx |-> Raise(c1, env.fault.kind, CollaboratorMsg)]
        ELSE [rt |-> [r EXCEPT !.current_snapshot = LastImmutableAnchorOf(r.anchor_store)],
              ctx |-> Alert(Called(c1, "assign_slow"), "INFO", step,
                            "Slow-path rollback: restored last immutable anchor")]

\* FastPath that applies the inverse deltas in the order they were recorded
FastPathForwardOrder(r, c, env, step) ==
    LET l == InverseLoop(r.kernel, c, env, c.inverse_deltas,
                         r.current_snapshot.zon4d_state)
        c1 == Called(l.ctx, "validate_state")
    IN  IF l.ctx.raised # "none" THEN [rt |-> r, ctx |-> l.ctx]
        ELSE IF FaultAt(env, "validate")
           THEN [rt |-> r, ctx |-> Raise(c1, env.fault.kind, CollaboratorMsg)]
        ELSE IF ~ValidateState(r.kernel, l.state)
           THEN SlowPath(r,
                         Alert(c1, "CRITICAL", step,
                               "Fast-path rollback validation failed; falling back to anchor restore"),
                         env, step)
        ELSE [rt |-> [r EXCEPT !.current_snapshot =
                          Snapshot(@.id, @.tick, l.state, @.hash32, @.anchor_type)],
              ctx |-> Alert(Called(c1, "assign_fast"), "INFO", step,
                            "Fast-path rollback applied via inverse Deltas")]

\* fast path: inverse deltas on a copy of current_snapshot's state, revalidated
FastPath(r, c, env, step) ==
    LET l == InverseLoop(r.kernel, c, env, Reversed(c.inverse_deltas),
                         r.current_snapshot.zon4d_state)
        c1 == Called(l.ctx, "validate_state")
    IN  IF l.ctx.raised # "none" THEN [rt |-> r, ctx |-> l.ctx]
        ELSE IF FaultAt(env, "validate")
           THEN [rt |-> r, ctx |-> Raise(c1, env.fault.kind, CollaboratorMsg)]
        ELSE IF ~ValidateState(r.kernel, l.state)
           THEN SlowPath(r,
                         Alert(c1, "CRITICAL", step,
                               "Fast-path rollback validation failed; falling back to anchor restore"),
                         env, step)
        ELSE [rt |-> [r EXCEPT !.current_snapshot =
                          Snapshot(@.id, @.tick, l.state, @.hash32, @.anchor_type)],
              ctx |-> Alert(Called(c1, "assign_fast"), "INFO", step,
                            "Fast-path rollback applied via inverse Deltas")]

Rollback(r, c, env) ==
    LET step == StepOr(c.breach_step)
        c1 == Called(Called(c, "_rollback"), "timeline_hash_ok")
        c2 == [c1 EXCEPT !.timeline_hash_ok = env.hash_rb]
    IN  IF FaultAt(env, "hash_rb")
           THEN [rt |-> r, ctx |-> Raise(c1, env.fault.kind, CollaboratorMsg)]
        ELSE IF UseFast(c2, step) THEN FastPath(r, c2, env, step)
        ELSE SlowPath(r, c2, env, step)

(***************************************************************************)
(* run_tick                                                                *)
(***************************************************************************)
\* a statement of the try block: skipped once an exception is propagating
Then(c, next) == IF c.raised # "none" THEN c ELSE next

\* Commit that never installs snapshot_out
CommitSkipped(r, c) == [rt |-> r, ctx |-> c]

\* Commit that also appends the committed snapshot to the Anchor Store
CommitAppendsSnapshot(r, c) ==
    IF c.raised = "none" /\ ~c.breached /\ c.snapshot_out # NoSnapshot
       THEN [rt |-> [r EXCEPT !.current_snapshot = c.snapshot_out,
                              !.timeline = Append(@, c.snapshot_out)],
             ctx |-> Called(Called(c, "commit"), "append_snapshot")]
    ELSE [rt |-> r, ctx |-> c]

\* if not ctx.breached and ctx.snapshot_out is not None: commit
Commit(r, c) ==
    IF c.raised = "none" /\ ~c.breached /\ c.snapshot_out # NoSnapshot
       THEN [rt |-> [r EXCEPT !.current_snapshot = c.snapshot_out],
             ctx |-> Called(c, "commit")]
    ELSE [rt |-> r, ctx |-> c]

\* HandleOutcome without the else clause: a soft breach is not rolled back
HandleOutcomeNoElse(r, c, env) ==
    IF c.raised = "RuntimeError"
       THEN Rollback(r, MarkBreach([c EXCEPT !.raised = "none"], c.exc_msg), env)
    ELSE [rt |-> r, ctx |-> c]

\* HandleOutcome that installs a snapshot_out step 6 produced after the
\* rollback of a RuntimeError
HandleOutcomeKeepsProduced(r, c, env) ==
    IF c.raised = "RuntimeError"
       THEN LET f == Rollback(r, MarkBreach([c EXCEPT !.raised = "none"], c.exc_msg), env)
            IN  IF f.ctx.raised = "none" /\ f.ctx.snapshot_out # NoSnapshot
                   THEN [f EXCEPT !.rt.current_snapshot = f.ctx.snapshot_out]
                ELSE f
    ELSE IF c.raised # "none" THEN [rt |-> r, ctx |-> c]
    ELSE IF c.breached THEN Rollback(r, c, env)
    ELSE [rt |-> r, ctx |-> c]

\* the except RuntimeError / else clauses of run_tick
HandleOutcome(r, c, env) ==
    IF c.raised = "RuntimeError"
       THEN Rollback(r, MarkBreach([c EXCEPT !.raised = "none"], c.exc_msg), env)
    ELSE IF c.raised # "none" THEN [rt |-> r, ctx |-> c]
    ELSE IF c.breached THEN Rollback(r, c, env)
    ELSE [rt |-> r, ctx |-> c]

RunTick(r, pending_deltas, domain_views, delta_time, now, env) ==
    LET AcceptOrdered(c3) == [c3 EXCEPT !.deltas_accepted = c3.deltas_ordered]
        WithViews(c6) == Then(c6, Step10GenerateDomainViews(c6, env))
        Scheduled(r1, c10) ==
            IF c10.raised # "none" THEN [rt |-> r1, ctx |-> c10]
            ELSE Step11SchedulePerformance(r1, c10, env)
        TryCommit(f11) == Commit(f11.rt, f11.ctx)
        Handled(f12) == HandleOutcome(f12.rt, f12.ctx, env)
        FromInit(f1) ==
            IF f1.ctx.raised # "none" THEN f1
            ELSE Handled(TryCommit(Scheduled(f1.rt,
                    WithViews(Step6ApplyDeltas(f1.rt,
                        AcceptOrdered(Step3TemporalOrder(Step2Ingest(f1.rt, f1.ctx))),
                        env)))))
    IN  FromInit(Step1Init(r, pending_deltas, domain_views, delta_time, now, env))

(***************************************************************************)
(* The callers                                                             *)
(***************************************************************************)
AddPayload(amount) == [op |-> "add", amount |-> amount]

BaseDelta == Delta("d1", "agent", "world/value", 10, <<1, 1>>, <<>>, AddPayload(PyInt(1)))

\* deltas for the ingestion and ordering claims: BaseDelta with one field changed
DeltaPool ==
    {BaseDelta}
    \cup {[BaseDelta EXCEPT !.id = x] : x \in {"", "d2"}}
    \cup {[BaseDelta EXCEPT !.source_id = x] : x \in {"", "user"}}
    \cup {[BaseDelta EXCEPT !.entity_ref = ""]}
    \cup {[BaseDelta EXCEPT !.temporal_index = x] : x \in {12, 20}}
    \cup {[BaseDelta EXCEPT !.temporal_scope = <<2, 1>>]}
    \cup {[BaseDelta EXCEPT !.parent_ids = x] :
             x \in {<<"d2">>, [i \in 1..MaxParents |-> "d2"],
                    [i \in 1..(MaxParents + 1) |-> "d2"]}}
    \cup {[BaseDelta EXCEPT !.payload = AddPayload(x)] : x \in {PyNone, PyFloat(1)}}

\* deltas for the commit and breach claims: a valid one, a second id, a
\* malformed one, one without an inverse, one that makes the state invalid
SmallPool ==
    {BaseDelta,
     [BaseDelta EXCEPT !.id = "d2"],
     [BaseDelta EXCEPT !.id = ""],
     [BaseDelta EXCEPT !.payload = AddPayload(PyNone)],
     [BaseDelta EXCEPT !.payload = AddPayload(PyFloat(1))]}

ListsOver(pool) == UNION {[1..n -> pool] : n \in 0..MaxLen}

CallerViews == {EmptyViews}

ExplicitDeltaTimes == {PyNone, PyFloat(0 - 1)}

Clock == {0, 1}

\* a wall clock that reads one unit more at every call
SteadyClock(r) == r.tick_counter

Configs == {SmallMaxDeltas, DefaultMaxDeltas}

\* the dict objects after construction: the state of the Anchor Store's
\* snapshot is object 1 and current_snapshot is that snapshot; handed lists
\* the snapshots the caller was handed, each with its dict and its content
\* when it was handed over; no delta has been made yet
NewHeap(store) ==
    [cells |-> <<InitialSnapshotOf(store).zon4d_state>>,
     current |-> 1,
     anchor |-> 1,
     handed |-> <<>>,
     pending |-> <<>>,
     deltas |-> <<>>]

\* what the caller reads after the call numbered tick_id
Logged(tick_id, r) == [tick_id |-> tick_id, current_snapshot |-> r.current_snapshot]

Init ==
    /\ rt \in {NewRuntime(k, m, p) : k \in Kernels, m \in Configs, p \in BOOLEAN}
    /\ ctx = NoCtx
    /\ outcome = "idle"
    /\ rtB = rt
    /\ ctxB = NoCtx
    /\ outcomeB = "idle"
    /\ history = <<Logged(0, rt)>>
    /\ heap = NewHeap(rt.anchor_store)

Outcome(c) == IF c.raised = "none" THEN "returned" ELSE "raised"

\* the caller calls run_tick and holds what it returns
CallRunTick ==
    /\ outcome = "idle"
    /\ rt.tick_counter < MaxTicks
    /\ \E pending \in ListsOver(SmallPool), views \in CallerViews,
          dt \in ExplicitDeltaTimes, env \in Envs :
          LET f == RunTick(rt, pending, views, dt, SteadyClock(rt), env)
          IN  /\ rt' = f.rt
              /\ ctx' = f.ctx
              /\ outcome' = Outcome(f.ctx)
    /\ UNCHANGED <<rtB, ctxB, outcomeB, history, heap>>

\* the caller drops the TickContext (or the exception) of the last call
DiscardContext ==
    /\ outcome # "idle"
    /\ outcome' = "idle"
    /\ ctx' = NoCtx
    /\ UNCHANGED <<rt, rtB, ctxB, outcomeB, history, heap>>

Next == CallRunTick \/ DiscardContext

Spec == Init /\ [][Next]_vars

(***************************************************************************)
(* Ingestion and ordering: calls with healthy collaborators over the       *)
(* larger DeltaPool                                                        *)
(***************************************************************************)
HealthyEnv(hash_ok) == [hash_init |-> hash_ok, hash_rb |-> hash_ok, fault |-> NoFault]

CallRunTickHealthy ==
    /\ outcome = "idle"
    /\ rt.tick_counter < MaxTicks
    /\ \E pending \in ListsOver(DeltaPool), views \in CallerViews, hash_ok \in BOOLEAN :
          LET f == RunTick(rt, pending, views, PyNone, SteadyClock(rt), HealthyEnv(hash_ok))
          IN  /\ rt' = f.rt
              /\ ctx' = f.ctx
              /\ outcome' = Outcome(f.ctx)
    /\ UNCHANGED <<rtB, ctxB, outcomeB, history, heap>>

NextIngest == CallRunTickHealthy \/ DiscardContext

SpecIngest == Init /\ [][NextIngest]_vars

(***************************************************************************)
(* Mutation: calls with healthy collaborators on the Runtime of            *)
(* test_runtime_loop.py and on the Runtime of test_full_integration.py,    *)
(* with deltas that add to the value, or store a value at an entity_ref    *)
(***************************************************************************)
\* add deltas: two ids, two temporal indexes, two amounts; one float amount
AddPool ==
    {Delta(id, "agent", "world/value", ti, <<1, 1>>, <<>>, AddPayload(PyInt(a))) :
        id \in {"d1", "d2"}, ti \in {10, 20}, a \in {1, 2}}
    \cup {[BaseDelta EXCEPT !.payload = AddPayload(PyFloat(1))]}

\* store deltas: two ids, two entity_refs, the values "keen", "tran", "INVALID"
StorePool ==
    {Delta(id, "agent", ref, 10, <<1, 1>>, <<>>, v) :
        id \in {"d1", "d2"},
        ref \in {"narrative/active_speaker", "audio/music"},
        v \in {PyStr(2), PyStr(3), InvalidValue}}

PoolFor(kernel) == IF kernel = IntegrationKernel THEN StorePool ELSE AddPool

InitMutate ==
    /\ rt \in {NewRuntime("TestZON4DKernel", DefaultMaxDeltas, FALSE),
                NewIntegrationRuntime(DefaultMaxDeltas, FALSE)}
    /\ ctx = NoCtx
    /\ outcome = "idle"
    /\ rtB = rt
    /\ ctxB = NoCtx
    /\ outcomeB = "idle"
    /\ history = <<Logged(0, rt)>>
    /\ heap = NewHeap(rt.anchor_store)

CallRunTickMutate ==
    /\ outcome = "idle"
    /\ rt.tick_counter < MaxTicks
    /\ \E pending \in ListsOver(PoolFor(rt.kernel)), hash_ok \in BOOLEAN :
          LET f == RunTick(rt, pending, EmptyViews, PyNone, SteadyClock(rt),
                           HealthyEnv(hash_ok))
          IN  /\ rt' = f.rt
              /\ ctx' = f.ctx
              /\ outcome' = Outcome(f.ctx)
    /\ UNCHANGED <<rtB, ctxB, outcomeB, history, heap>>

NextMutate == CallRunTickMutate \/ DiscardContext

SpecMutate == InitMutate /\ [][NextMutate]_vars

(***************************************************************************)
(* A caller that logs runtime.current_snapshot after every call            *)
(***************************************************************************)
\* collaborators that answer, or fail in step 1, 6, 10 or 11 or in the rollback
LoggedEnvs ==
    {e \in Envs : e.fault \in {NoFault,
                               [site |-> "hash_init", kind |-> "RuntimeError"],
                               [site |-> "validate", kind |-> "RuntimeError"],
                               [site |-> "views", kind |-> "Exception"],
                               [site |-> "sink", kind |-> "Exception"],
                               [site |-> "load_anchor", kind |-> "RuntimeError"]}}

CallRunTickLogged ==
    /\ outcome = "idle"
    /\ rt.tick_counter < MaxTicks
    /\ \E pending \in ListsOver(SmallPool), env \in LoggedEnvs :
          LET f == RunTick(rt, pending, EmptyViews, PyNone, SteadyClock(rt), env)
          IN  /\ rt' = f.rt
              /\ ctx' = f.ctx
              /\ outcome' = Outcome(f.ctx)
              /\ history' = Append(history, Logged(f.ctx.tick_id, f.rt))
    /\ UNCHANGED <<rtB, ctxB, outcomeB, heap>>

NextLogged == CallRunTickLogged \/ DiscardContext

SpecLogged == Init /\ [][NextLogged]_vars

(***************************************************************************)
(* Performance: the Runtime of test_full_integration.py with its           *)
(* PerformerEngine and TestPerformanceABI, fed deltas that set a speaker,  *)
(* a line or a forbidden value, views of the caller's own, and explicit    *)
(* delta times                                                             *)
(***************************************************************************)
PerformPool ==
    {Delta("d1", "agent", "narrative/active_speaker", 10, <<1, 1>>, <<>>, PyStr(2)),
     Delta("d2", "agent", "narrative/active_line", 10, <<1, 1>>, <<>>, PyStr(3)),
     Delta("d2", "agent", "audio/sfx", 10, <<1, 1>>, <<>>, InvalidValue)}

\* the caller passes no views, or a conversation of its own and a view the
\* engine derives nothing for
PerformCallerViews ==
    {EmptyViews,
     [narrative_view |->
         [active_conversations |-> <<[speaker_id |-> PyStr(3), line_id |-> PyStr(2)]>>],
      camera_view |-> [target |-> PyStr(2)]]}

PerformDeltaTimes == {PyFloat(0 - 1), PyFloat(2)}

\* collaborators that answer, a broken timeline hash, a performer or a sink
\* that raises RuntimeError, a view generation that fails
PerformEnvs ==
    {HealthyEnv(TRUE), HealthyEnv(FALSE),
     [HealthyEnv(TRUE) EXCEPT !.fault = [site |-> "performer", kind |-> "RuntimeError"]],
     [HealthyEnv(TRUE) EXCEPT !.fault = [site |-> "sink", kind |-> "RuntimeError"]],
     [HealthyEnv(TRUE) EXCEPT !.fault = [site |-> "views", kind |-> "Exception"]]}

InitPerform ==
    /\ rt = NewIntegrationRuntime(DefaultMaxDeltas, TRUE)
    /\ ctx = NoCtx
    /\ outcome = "idle"
    /\ rtB = rt
    /\ ctxB = NoCtx
    /\ outcomeB = "idle"
    /\ history = <<Logged(0, rt)>>
    /\ heap = NewHeap(rt.anchor_store)

CallRunTickPerform ==
    /\ outcome = "idle"
    /\ rt.tick_counter < MaxTicks
    /\ \E pending \in ListsOver(PerformPool), views \in PerformCallerViews,
          dt \in PerformDeltaTimes, env \in PerformEnvs :
          LET f == RunTick(rt, pending, views, dt, SteadyClock(rt), env)
          IN  /\ rt' = f.rt
              /\ ctx' = f.ctx
              /\ outcome' = Outcome(f.ctx)
    /\ UNCHANGED <<rtB, ctxB, outcomeB, history, heap>>

NextPerform == CallRunTickPerform \/ DiscardContext

SpecPerform == InitPerform /\ [][NextPerform]_vars

(***************************************************************************)
(* PerformerEngine.step and SceneTrack.gather_new_tasks_for_window called  *)
(* directly, with any tick id, delta time and window; history is the list  *)
(* of the calls made, each with the tasks it returned                      *)
(***************************************************************************)
\* the views of the caller, and a narrative view that lists one line twice
StepViews ==
    PerformCallerViews
    \cup {[narrative_view |->
              [active_conversations |->
                  <<[speaker_id |-> PyStr(3), line_id |-> PyStr(2)],
                    [speaker_id |-> PyStr(3), line_id |-> PyStr(2)]>>]]}

InitStep ==
    /\ rt = NewIntegrationRuntime(DefaultMaxDeltas, TRUE)
    /\ ctx = NoCtx
    /\ outcome = "idle"
    /\ rtB = rt
    /\ ctxB = NoCtx
    /\ outcomeB = "idle"
    /\ history = <<>>
    /\ heap = NewHeap(rt.anchor_store)

CallStep ==
    /\ Len(history) < MaxTicks
    /\ \E tick_id \in 1..MaxTicks, delta_time \in {0 - 1, 2}, views \in StepViews :
          LET s == PerformerStep(rt.scene_track, tick_id, delta_time, views)
          IN  /\ rt' = [rt EXCEPT !.scene_track = s.scene_track]
              /\ history' = Append(history,
                                   [op |-> "step", tick_id |-> tick_id,
                                    window |-> <<rt.scene_track.scene_time,
                                                 s.scene_track.scene_time>>,
                                    tasks |-> s.tasks])
    /\ UNCHANGED <<ctx, outcome, rtB, ctxB, outcomeB, heap>>

CallGatherNewTasks ==
    /\ Len(history) < MaxTicks
    /\ \E tick_id \in 1..MaxTicks, window_start \in {0, 2}, window_end \in {2, 4} :
          LET g == GatherNewTasksForWindow(rt.scene_track, 1, tick_id,
                                           window_start, window_end, <<>>)
          IN  /\ rt' = [rt EXCEPT !.scene_track = g.scene_track]
              /\ history' = Append(history,
                                   [op |-> "gather", tick_id |-> tick_id,
                                    window |-> <<window_start, window_end>>,
                                    tasks |-> g.tasks])
    /\ UNCHANGED <<ctx, outcome, rtB, ctxB, outcomeB, heap>>

NextStep == CallStep \/ CallGatherNewTasks

SpecStep == InitStep /\ [][NextStep]_vars

(***************************************************************************)
(* The dict objects: which dict step 6 and the fast rollback path write,   *)
(* and which dict current_snapshot holds, along the calls of SpecMutate    *)
(* and along _rollback entered for a breach flagged after step 6           *)
(***************************************************************************)
\* WorkingCopy that hands back the dict itself instead of a copy
WorkingCopyAliased(h, src) == [heap |-> h, ref |-> src]

\* dict(src): a new dict object with the content of src
WorkingCopy(h, src) ==
    [heap |-> [h EXCEPT !.cells = Append(@, @[src])], ref |-> Len(h.cells) + 1]

\* apply_delta_in_place on the dict object ref, for each delta of ds in turn
RECURSIVE HeapApplyAll(_, _, _, _)
HeapApplyAll(kernel, h, ref, ds) ==
    IF ds = <<>> THEN h
    ELSE HeapApplyAll(kernel,
                      [h EXCEPT !.cells[ref] = ApplyDeltaInPlace(kernel, @, Head(ds))],
                      ref, Tail(ds))

\* the caller is handed a snapshot whose state is the dict object ref
Handed(h, ref, snapshot) ==
    [h EXCEPT !.handed = Append(@, [ref |-> ref, zon4d_state |-> snapshot.zon4d_state])]

\* step 6 got to its copy of snapshot_in's state
EnteredStep6(c) ==
    \E i \in DOMAIN c.calls : c.calls[i] \in {"compute_inverse_delta", "validate_state"}

\* the dict objects after the run_tick call that returned the context c:
\* step 6 copies snapshot_in's dict and applies the deltas to the copy, the
\* commit makes the copy current, the slow rollback path the anchor
HeapRunTick(h, kernel, c) ==
    LET in_ref == h.current
        w == WorkingCopy(h, in_ref)
        applied == SubSeq(c.deltas_accepted, 1, Count(c.calls, "apply_delta_in_place"))
        h1 == IF EnteredStep6(c) THEN HeapApplyAll(kernel, w.heap, w.ref, applied)
              ELSE h
        h2 == IF Count(c.calls, "commit") = 1 THEN [h1 EXCEPT !.current = w.ref]
              ELSE IF Count(c.calls, "assign_slow") = 1
                 THEN [h1 EXCEPT !.current = h1.anchor]
              ELSE h1
        h3 == Handed(h2, in_ref, c.snapshot_in)
    IN  IF c.snapshot_out # NoSnapshot THEN Handed(h3, w.ref, c.snapshot_out) ELSE h3

\* the dict objects after _rollback(c0) left the context c: the fast path
\* copies current_snapshot's dict and applies the inverse deltas to the copy
HeapRollback(h, kernel, c0, c) ==
    IF UseFast(c, StepOr(c0.breach_step))
       THEN LET w == WorkingCopy(h, h.current)
                h1 == HeapApplyAll(kernel, w.heap, w.ref, Reversed(c0.inverse_deltas))
            IN  IF Count(c.calls, "assign_fast") = 1 THEN [h1 EXCEPT !.current = w.ref]
                ELSE [h1 EXCEPT !.current = h1.anchor]
    ELSE [h EXCEPT !.current = h.anchor]

\* two deltas that change the state and one the kernel's validate_state refuses
HeapPoolFor(kernel) ==
    IF kernel = IntegrationKernel
       THEN {Delta("d1", "agent", "narrative/active_speaker", 10, <<1, 1>>, <<>>, PyStr(2)),
             Delta("d2", "agent", "narrative/active_speaker", 10, <<1, 1>>, <<>>, PyStr(3)),
             Delta("d1", "agent", "audio/music", 10, <<1, 1>>, <<>>, InvalidValue)}
    ELSE {BaseDelta,
          Delta("d2", "agent", "world/value", 10, <<1, 1>>, <<>>, AddPayload(PyInt(2))),
          [BaseDelta EXCEPT !.payload = AddPayload(PyFloat(1))]}

HeapCallRunTick ==
    /\ outcome = "idle"
    /\ rt.tick_counter < MaxTicks
    /\ \E pending \in ListsOver(HeapPoolFor(rt.kernel)), hash_ok \in BOOLEAN :
          LET f == RunTick(rt, pending, EmptyViews, PyNone, SteadyClock(rt),
                           HealthyEnv(hash_ok))
          IN  /\ rt' = f.rt
              /\ ctx' = f.ctx
              /\ outcome' = Outcome(f.ctx)
              /\ heap' = HeapRunTick(heap, rt.kernel, f.ctx)
    /\ UNCHANGED <<rtB, ctxB, outcomeB, history>>

\* _rollback entered with the context of a committed tick on which a later
\* step (7 to 9, not part of run_tick yet) flagged a breach
HeapCallRollback ==
    /\ outcome = "returned"
    /\ ~ctx.breached /\ ctx.snapshot_out # NoSnapshot
    /\ \E hash_ok \in BOOLEAN :
          LET c0 == [ctx EXCEPT !.breached = TRUE, !.breach_step = 7]
              f == Rollback(rt, c0, HealthyEnv(hash_ok))
          IN  /\ rt' = f.rt
              /\ ctx' = f.ctx
              /\ outcome' = "rolled_back"
              /\ heap' = HeapRollback(heap, rt.kernel, c0, f.ctx)
    /\ UNCHANGED <<rtB, ctxB, outcomeB, history>>

NextHeap == HeapCallRunTick \/ HeapCallRollback \/ DiscardContext

SpecHeap == InitMutate /\ [][NextHeap]_vars

(***************************************************************************)
(* The objects of the deltas: the caller builds its deltas, calls run_tick *)
(* and afterwards changes one of its own deltas in place                   *)
(***************************************************************************)
\* a rounded delta, one to round with a parent, a malformed one
AliasPool ==
    {BaseDelta,
     [BaseDelta EXCEPT !.id = "d2", !.temporal_index = 12, !.parent_ids = <<"d2">>],
     [BaseDelta EXCEPT !.id = ""]}

\* the Delta a delta object reads as now
DeltaValue(h, o) ==
    Delta(o.id, o.source_id, o.entity_ref, o.temporal_index, o.temporal_scope,
          h.cells[o.parent_ids], h.cells[o.payload])

\* the caller constructs the deltas ds: each gets a list for parent_ids, its
\* payload dict and an empty metadata dict
RECURSIVE CallerDeltas(_, _)
CallerDeltas(h, ds) ==
    IF ds = <<>> THEN h
    ELSE LET d == Head(ds)
             n == Len(h.cells)
             o == [id |-> d.id, source_id |-> d.source_id, entity_ref |-> d.entity_ref,
                   temporal_index |-> d.temporal_index,
                   temporal_scope |-> d.temporal_scope,
                   parent_ids |-> n + 1, payload |-> n + 2, metadata |-> n + 3]
         IN  CallerDeltas([h EXCEPT !.cells = @ \o <<d.parent_ids, d.payload,
                                                     [k \in {} |-> PyNone]>>,
                                    !.pending = Append(@, o)],
                          Tail(ds))

\* _normalized_delta on objects: list(d.parent_ids) and dict(d.metadata) are
\* new objects, payload=d.payload is the caller's
NormalizedDeltaObject(h, o) ==
    LET n == Len(h.cells)
    IN  [heap |-> [h EXCEPT !.cells = @ \o <<@[o.parent_ids], @[o.metadata]>>],
         delta |-> [o EXCEPT !.temporal_index = Round6(@),
                             !.parent_ids = n + 1, !.metadata = n + 2]]

\* the loop of step 2 on objects: heap.deltas becomes the list valid
RECURSIVE IngestObjects(_, _)
IngestObjects(h, objs) ==
    IF objs = <<>> THEN h
    ELSE IF ValidateDeltaStructure(DeltaValue(h, Head(objs)))
       THEN LET m == NormalizedDeltaObject(h, Head(objs))
            IN  IngestObjects([m.heap EXCEPT !.deltas = Append(@, m.delta)], Tail(objs))
    ELSE IngestObjects(h, Tail(objs))

\* the objects after a run_tick call that returned c: ctx.deltas_in is the
\* caller's list copied when step 1 breached, else the deltas step 2 made;
\* deltas_ordered and deltas_accepted are lists of the same objects
AliasRunTick(h, r, c) ==
    IF c.breach_step = 1 THEN [h EXCEPT !.deltas = h.pending]
    ELSE IngestObjects(h, SubSeq(h.pending, 1,
                                 IF Len(h.pending) > r.max_deltas_per_tick
                                    THEN r.max_deltas_per_tick ELSE Len(h.pending)))

\* objects of earlier calls are no longer referenced and are left out
AliasCallRunTick ==
    /\ outcome = "idle"
    /\ rt.tick_counter < MaxTicks
    /\ \E pending \in ListsOver(AliasPool) :
          LET f == RunTick(rt, pending, EmptyViews, PyNone, SteadyClock(rt),
                           HealthyEnv(TRUE))
          IN  /\ rt' = f.rt
              /\ ctx' = f.ctx
              /\ outcome' = Outcome(f.ctx)
              /\ heap' = AliasRunTick(CallerDeltas(NewHeap(rt.anchor_store), pending),
                                      rt, f.ctx)
    /\ UNCHANGED <<rtB, ctxB, outcomeB, history>>

\* the caller appends a parent to one of its deltas, changes the amount in
\* its payload dict or adds a key to its metadata
AliasCallerMutates ==
    /\ outcome = "returned"
    /\ \E i \in DOMAIN heap.pending, field \in {"parent_ids", "payload", "metadata"} :
          LET o == heap.pending[i]
          IN  heap' = [heap EXCEPT
                          !.cells[o[field]] =
                              IF field = "parent_ids" THEN Append(@, "d1")
                              ELSE IF field = "payload" THEN [@ EXCEPT !.amount = PyInt(7)]
                              ELSE [k \in {"note"} |-> PyInt(1)]]
    /\ outcome' = "mutated"
    /\ UNCHANGED <<rt, ctx, rtB, ctxB, outcomeB, history>>

NextAlias == AliasCallRunTick \/ AliasCallerMutates \/ DiscardContext

SpecAlias == InitMutate /\ [][NextAlias]_vars

(***************************************************************************)
(* Replay: two Runtimes constructed alike are fed the same calls; the      *)
(* collaborators behave alike, the wall clock read by the second differs   *)
(***************************************************************************)
ReplayEnvs ==
    {e \in Envs : e.fault \in {NoFault,
                               [site |-> "validate", kind |-> "RuntimeError"]}}

ReplayCall ==
    /\ outcome = "idle" /\ outcomeB = "idle"
    /\ rt.tick_counter < MaxTicks
    /\ \E pending \in ListsOver(SmallPool), views \in CallerViews,
          dt \in ExplicitDeltaTimes, env \in ReplayEnvs, nowB \in Clock :
          LET fA == RunTick(rt, pending, views, dt, SteadyClock(rt), env)
              fB == RunTick(rtB, pending, views, dt, nowB, env)
          IN  /\ rt' = fA.rt /\ ctx' = fA.ctx /\ outcome' = Outcome(fA.ctx)
              /\ rtB' = fB.rt /\ ctxB' = fB.ctx /\ outcomeB' = Outcome(fB.ctx)
    /\ UNCHANGED <<history, heap>>

ReplayDiscard ==
    /\ outcome # "idle" /\ outcomeB # "idle"
    /\ outcome' = "idle" /\ outcomeB' = "idle"
    /\ ctx' = NoCtx /\ ctxB' = NoCtx
    /\ UNCHANGED <<rt, rtB, history, heap>>

NextReplay == ReplayCall \/ ReplayDiscard

SpecReplay == Init /\ [][NextReplay]_vars

(***************************************************************************)
(* _rollback on its own: entered with any breach_step and any recorded     *)
(* inverse deltas, under any answer of timeline_hash_ok                    *)
(***************************************************************************)
BreachSteps == {NoStep} \cup 0..8

InversePool ==
    {ComputeInverseDelta("TestZON4DKernel", ImmutableAnchor.zon4d_state, d) :
        d \in {BaseDelta, [BaseDelta EXCEPT !.payload = AddPayload(PyFloat(1))]}}

RollbackSnapshots ==
    {ImmutableAnchor,
     Snapshot(AllocSnapshotId(1), 1, [k \in {"value"} |-> PyInt(1)], "<None>", "soft")}

\* inverse deltas of the IntegrationKernel: the old value of audio/music
\* was absent, "keen" or "INVALID" when d1 stored "tran" there
StoreInversePool ==
    {ComputeInverseDelta(IntegrationKernel, st,
                         Delta("d1", "agent", "audio/music", 10, <<1, 1>>, <<>>, PyStr(3))) :
        st \in {IntegrationInitial.zon4d_state,
                [k \in {"audio/music"} |-> PyStr(2)],
                [k \in {"audio/music"} |-> InvalidValue]}}

InitRollback ==
    /\ \E r0 \in {NewRuntime(k, DefaultMaxDeltas, FALSE) : k \in Kernels}
                     \cup {NewIntegrationRuntime(DefaultMaxDeltas, FALSE)},
          s \in RollbackSnapshots \cup {IntegrationInitial} :
          /\ (r0.kernel = IntegrationKernel) <=> (s = IntegrationInitial)
          /\ rt = [r0 EXCEPT !.tick_counter = s.tick + 1, !.current_snapshot = s]
          /\ \E step \in BreachSteps, h \in BOOLEAN,
                invs \in ListsOver(IF r0.kernel = IntegrationKernel
                                      THEN StoreInversePool ELSE InversePool) :
                ctx = [TickContext(s.tick + 1, s.tick + 1, s, 0, EmptyViews)
                         EXCEPT !.breached = TRUE, !.breach_step = step,
                                !.inverse_deltas = invs, !.timeline_hash_ok = h]
    /\ outcome = "breached"
    /\ rtB = rt
    /\ ctxB = NoCtx
    /\ outcomeB = "idle"
    /\ history = <<Logged(0, rt)>>
    /\ heap = NewHeap(rt.anchor_store)

CallRollback ==
    /\ outcome = "breached"
    /\ \E env \in AllEnvs :
          LET f == Rollback(rt, ctx, env)
          IN  /\ rt' = f.rt
              /\ ctx' = f.ctx
              /\ outcome' = IF f.ctx.raised = "none" THEN "rolled_back" ELSE "raised"
    /\ UNCHANGED <<rtB, ctxB, outcomeB, history, heap>>

NextRollback == CallRollback

SpecRollback == InitRollback /\ [][NextRollback]_vars

(***************************************************************************)
(* Properties of run_tick (specification Spec)                             *)
(***************************************************************************)
Returned == outcome = "returned"

Escaped == outcome = "raised"

\* index of the first occurrence of one of names in calls, 0 when there is none
FirstIndex(calls, names) ==
    IF \E i \in DOMAIN calls : calls[i] \in names
       THEN CHOOSE i \in DOMAIN calls :
               /\ calls[i] \in names
               /\ \A j \in 1..(i - 1) : calls[j] \notin names
    ELSE 0

HasAlert(c, level, message) ==
    \E i \in DOMAIN c.alerts :
       c.alerts[i].level = level /\ c.alerts[i].message = message

Committed(c) == ~c.breached /\ c.snapshot_out # NoSnapshot

\* step 6's validate_state returned false
ValidationFailed(c) == HasAlert(c, "CRITICAL", "ZON4D state validation failed")

\* a collaborator call raised during the tick
CollaboratorRaised(c) == c.exc_msg = CollaboratorMsg

\* C1 as stated: after a call that returns, current_snapshot differs from
\* its value before the call (ctx.snapshot_in) if and only if the tick
\* returned with breached = false and a non-None snapshot_out.
C1_CommitAtomicityAsStated ==
    Returned => ((rt.current_snapshot # ctx.snapshot_in) <=> Committed(ctx))

\* C1 amended: current_snapshot differs from its value before the call if
\* and only if the tick returned unbreached with a snapshot_out (which is
\* then current_snapshot), or returned breached and the rollback restored a
\* last immutable anchor that differs from the previous current_snapshot; a
\* call that raises leaves current_snapshot as it was.
C1_CommitOrRollback ==
    /\ Returned =>
         /\ (rt.current_snapshot # ctx.snapshot_in)
               <=> \/ Committed(ctx)
                   \/ ctx.breached /\ ctx.snapshot_in # LoadLastImmutableAnchor
         /\ Committed(ctx) => rt.current_snapshot = ctx.snapshot_out
         /\ ctx.breached => rt.current_snapshot = LoadLastImmutableAnchor
    /\ Escaped => rt.current_snapshot = ctx.snapshot_in

C1_Witness ==
    /\ Returned
    /\ ctx.breached
    /\ ctx.snapshot_in # LoadLastImmutableAnchor
    /\ rt.current_snapshot = LoadLastImmutableAnchor

\* C2: when step 6's validate_state returns false (and no collaborator
\* raises), run_tick returns with breached = true and current_snapshot's
\* state is the state of the last immutable anchor, also after committed
\* ticks and whatever the deltas of the tick were.
C2_BreachRollback ==
    (outcome # "idle" /\ ValidationFailed(ctx) /\ ~CollaboratorRaised(ctx)) =>
        /\ Returned
        /\ ctx.breached
        /\ rt.current_snapshot.zon4d_state = LoadLastImmutableAnchor.zon4d_state

C2_Witness ==
    /\ Returned
    /\ ValidationFailed(ctx)
    /\ ctx.snapshot_in.tick > 0
    /\ ctx.snapshot_in.zon4d_state # LoadLastImmutableAnchor.zon4d_state
    /\ Len(ctx.deltas_accepted) > 0
    /\ rt.current_snapshot.zon4d_state = LoadLastImmutableAnchor.zon4d_state

\* C3 as stated: whatever a collaborator raises during the call, run_tick
\* returns a TickContext with breached = true, a CRITICAL "Runtime breach"
\* alert, and the rollback performed.
C3_NoFailureEscapes ==
    (outcome # "idle" /\ CollaboratorRaised(ctx)) =>
        /\ Returned
        /\ ctx.breached
        /\ HasAlert(ctx, "CRITICAL", "Runtime breach: " \o CollaboratorMsg)
        /\ Count(ctx.calls, "_rollback") = 1

\* C4: a tick that returns breached ran _rollback exactly once, after the
\* breach was flagged; a tick that returns unbreached never ran it.
C4_RollbackExactlyOnce ==
    Returned =>
        IF ctx.breached
           THEN /\ Count(ctx.calls, "_rollback") = 1
                /\ FirstIndex(ctx.calls, {"_breach", "_mark_breach"}) > 0
                /\ FirstIndex(ctx.calls, {"_breach", "_mark_breach"})
                      < FirstIndex(ctx.calls, {"_rollback"})
        ELSE Count(ctx.calls, "_rollback") = 0

\* a soft breach (step 1, no exception) that was rolled back
C4_Witness ==
    /\ Returned
    /\ ctx.breached
    /\ ctx.breach_step = 1
    /\ Count(ctx.calls, "_mark_breach") = 0
    /\ Count(ctx.calls, "_rollback") = 1

\* C6 as stated: on a tick that returns breached exactly one rollback path
\* assigned current_snapshot and the state it left is accepted by the
\* kernel's validate_state.
C6_OnePathValidatedAsStated ==
    (Returned /\ ctx.breached) =>
        /\ Count(ctx.calls, "assign_fast") + Count(ctx.calls, "assign_slow") = 1
        /\ ValidateState(rt.kernel, rt.current_snapshot.zon4d_state)

\* C6 amended: on a tick that returns breached exactly one rollback path
\* assigned current_snapshot; a state left by the fast path was accepted by
\* validate_state, a state left by the slow path is the last immutable
\* anchor, which is installed without asking the kernel.
C6_OnePathAssigns ==
    (Returned /\ ctx.breached) =>
        /\ Count(ctx.calls, "assign_fast") + Count(ctx.calls, "assign_slow") = 1
        /\ Count(ctx.calls, "assign_fast") = 1 =>
              ValidateState(rt.kernel, rt.current_snapshot.zon4d_state)
        /\ Count(ctx.calls, "assign_slow") = 1 =>
              /\ rt.current_snapshot = LoadLastImmutableAnchor
              /\ ctx.calls[Len(ctx.calls)] = "assign_slow"

\* the anchor restored under a kernel that rejects it
C6_Witness ==
    /\ Returned
    /\ ctx.breached
    /\ Count(ctx.calls, "assign_slow") = 1
    /\ ~ValidateState(rt.kernel, rt.current_snapshot.zon4d_state)

\* the payload of d has no amount: the add kernels compute no inverse for it
Uninvertible(d) == d.payload.amount.kind = "none"

\* compute_inverse_delta returned None during step 6
InverseFailed(c) ==
    \E i \in DOMAIN c.deltas_accepted :
       HasAlert(c, "CRITICAL",
                "Cannot compute inverse for Delta " \o c.deltas_accepted[i].id)

\* C15: when compute_inverse_delta returns None for the k-th accepted
\* delta, step 6 made k compute_inverse_delta calls and k - 1
\* apply_delta_in_place calls and none after them, the tick is breached
\* with breach_step = 6, snapshot_out stays None, and current_snapshot is
\* the snapshot the tick started from or the restored anchor, never a state
\* with the first k - 1 deltas applied.
C15_InverseFailureStops ==
    (outcome # "idle" /\ InverseFailed(ctx)) =>
        LET k == CHOOSE i \in DOMAIN ctx.deltas_accepted :
                    /\ Uninvertible(ctx.deltas_accepted[i])
                    /\ \A j \in 1..(i - 1) : ~Uninvertible(ctx.deltas_accepted[j])
        IN  /\ \E i \in DOMAIN ctx.deltas_accepted : Uninvertible(ctx.deltas_accepted[i])
            /\ Count(ctx.calls, "compute_inverse_delta") = k
            /\ Count(ctx.calls, "apply_delta_in_place") = k - 1
            /\ Count(ctx.calls, "validate_state") = 0
            /\ ctx.breached
            /\ ctx.breach_step = 6
            /\ ctx.snapshot_out = NoSnapshot
            /\ ctx.inverse_deltas = <<>>
            /\ Returned => rt.current_snapshot = LoadLastImmutableAnchor
            /\ Escaped => rt.current_snapshot = ctx.snapshot_in

\* the second accepted delta has no inverse, after a committed tick
C15_Witness ==
    /\ Returned
    /\ InverseFailed(ctx)
    /\ Count(ctx.calls, "compute_inverse_delta") = 2
    /\ Count(ctx.calls, "apply_delta_in_place") = 1
    /\ ctx.snapshot_in.tick > 0
    /\ ctx.snapshot_in.zon4d_state # LoadLastImmutableAnchor.zon4d_state
    /\ rt.current_snapshot = LoadLastImmutableAnchor

\* C16: when timeline_hash_ok() is false at tick start the tick is breached
\* with breach_step = 1 and a CRITICAL alert of step 1, nothing is
\* ingested, ordered or mutated (the kernel is never called, accepted,
\* ordered and rejected stay empty, snapshot_out stays None), and _rollback
\* is called.
C16_ContinuityBreach ==
    (outcome # "idle" /\ ~ctx.timeline_hash_ok) =>
        /\ ctx.breached
        /\ ctx.breach_step = 1
        /\ Len(ctx.alerts) >= 1
        /\ ctx.alerts[1].level = "CRITICAL" /\ ctx.alerts[1].step = 1
        /\ Count(ctx.calls, "compute_inverse_delta") = 0
        /\ Count(ctx.calls, "apply_delta_in_place") = 0
        /\ Count(ctx.calls, "validate_state") = 0
        /\ ctx.deltas_accepted = <<>>
        /\ ctx.deltas_ordered = <<>>
        /\ ctx.deltas_rejected = <<>>
        /\ ~ctx.fenced
        /\ ctx.snapshot_out = NoSnapshot
        /\ Count(ctx.calls, "_rollback") = 1
        /\ Returned => rt.current_snapshot = LoadLastImmutableAnchor

\* a hash mismatch on a tick that was handed deltas, after a committed tick
C16_Witness ==
    /\ Returned
    /\ ~ctx.timeline_hash_ok
    /\ ctx.breach_step = 1
    /\ Len(ctx.pending_deltas) > 0
    /\ ctx.snapshot_in.tick > 0
    /\ Count(ctx.calls, "_rollback") = 1

\* generate_domain_views_from_state (or its import) failed in step 10
ViewsFailed(c) ==
    \/ HasAlert(c, "ERROR", "Domain view generation failed: " \o CollaboratorMsg)
    \/ HasAlert(c, "WARNING",
                "domain_views module not available; skipping view generation")

\* performer.step or schedule_performance raised in step 11
SchedulingFailed(c) ==
    CollaboratorRaised(c) /\ Count(c.calls, "performer.step") = 1

\* C20 as stated: a failure of view generation in step 10, or of the
\* performer step or the scheduling sink in step 11, is recorded as an
\* alert, leaves breached false, runs no rollback, and the tick's
\* snapshot_out is committed as current_snapshot.
C20_ViewAndSchedulingFailuresAreNonFatal ==
    (outcome # "idle" /\ (ViewsFailed(ctx) \/ SchedulingFailed(ctx))) =>
        /\ Returned
        /\ \E i \in DOMAIN ctx.alerts :
               ctx.alerts[i].step \in {10, 11} /\ ctx.alerts[i].level # "INFO"
        /\ ~ctx.breached
        /\ Count(ctx.calls, "_rollback") = 0
        /\ ctx.snapshot_out # NoSnapshot
        /\ rt.current_snapshot = ctx.snapshot_out

\* the alert carries one of levels, a step of the pipeline (or -1 for a
\* breach without a step), the tick's id and the tick's timestamp
WellFormedAlert(c, a, levels) ==
    /\ a.level \in levels
    /\ a.step \in {0 - 1} \cup 1..11
    /\ a.tick = c.tick_id
    /\ a.ts = c.wall_clock_ts

HasLevel(c, level) == \E i \in DOMAIN c.alerts : c.alerts[i].level = level

\* C23 as stated: every alert of a returned TickContext has a severity in
\* {INFO, WARNING, CRITICAL}, a step number, the tick's id and timestamp,
\* and the tick is breached exactly when a CRITICAL alert was recorded.
C23_AlertsAsStated ==
    Returned =>
        /\ \A i \in DOMAIN ctx.alerts :
               WellFormedAlert(ctx, ctx.alerts[i], {"INFO", "WARNING", "CRITICAL"})
        /\ ctx.breached <=> HasLevel(ctx, "CRITICAL")

\* C23: every alert of a returned TickContext has a severity in {INFO,
\* WARNING, ERROR, CRITICAL} (ERROR for a failed view generation in step
\* 10), a step number, the tick's id and the tick's timestamp, and the tick
\* is breached exactly when a CRITICAL alert was recorded.
C23_Alerts ==
    Returned =>
        /\ \A i \in DOMAIN ctx.alerts :
               WellFormedAlert(ctx, ctx.alerts[i],
                               {"INFO", "WARNING", "ERROR", "CRITICAL"})
        /\ ctx.breached <=> HasLevel(ctx, "CRITICAL")

\* a committed tick whose view generation failed and whose step 11 logged
C23_Witness ==
    /\ Returned /\ ~ctx.breached
    /\ HasLevel(ctx, "ERROR") /\ HasLevel(ctx, "INFO") /\ HasLevel(ctx, "WARNING")
    /\ rt.current_snapshot = ctx.snapshot_out

HasCriticalAt(c, step) ==
    \E i \in DOMAIN c.alerts :
       c.alerts[i].level = "CRITICAL" /\ c.alerts[i].step = step

HashMismatch(c) == HasAlert(c, "CRITICAL", "Timeline hash mismatch at Tick init")

\* C24 as stated: a returned TickContext with breached = true has a
\* breach_step that is not None (1 or 6) and a CRITICAL alert whose step is
\* breach_step.
C24_BreachRecordsStepAsStated ==
    (Returned /\ ctx.breached) =>
        /\ ctx.breach_step \in {1, 6}
        /\ HasCriticalAt(ctx, ctx.breach_step)

\* C24: a returned TickContext that is breached by a timeline-hash failure
\* has breach_step 1, one breached by an inverse-computation or validation
\* failure has breach_step 6, and both have a CRITICAL alert whose step is
\* breach_step; a tick breached only because a collaborator raised
\* RuntimeError has no breach_step and a CRITICAL alert with step -1.
C24_BreachRecordsStep ==
    (Returned /\ ctx.breached) =>
        /\ HashMismatch(ctx) => ctx.breach_step = 1
        /\ (InverseFailed(ctx) \/ ValidationFailed(ctx)) => ctx.breach_step = 6
        /\ ctx.breach_step # NoStep =>
              /\ ctx.breach_step \in {1, 6}
              /\ HashMismatch(ctx) \/ InverseFailed(ctx) \/ ValidationFailed(ctx)
              /\ HasCriticalAt(ctx, ctx.breach_step)
        /\ ctx.breach_step = NoStep =>
              /\ CollaboratorRaised(ctx)
              /\ HasCriticalAt(ctx, 0 - 1)

\* a tick breached by a delta without an inverse, after a first delta applied
C24_Witness ==
    /\ Returned /\ ctx.breached
    /\ ctx.breach_step = 6
    /\ InverseFailed(ctx)
    /\ Count(ctx.calls, "apply_delta_in_place") = 1
    /\ HasCriticalAt(ctx, 6)

\* _rollback was entered on the tick of c
EnteredRollback(c) == Count(c.calls, "_rollback") > 0

\* the kernel was called, or the fast path assigned or reported, once
\* _rollback was entered
FastPathExecuted(c) ==
    \/ \E i, j \in DOMAIN c.calls :
          /\ c.calls[i] = "_rollback"
          /\ i < j
          /\ c.calls[j] \in {"apply_delta_in_place", "validate_state", "assign_fast"}
    \/ \E i \in DOMAIN c.alerts :
          c.alerts[i].message \in
             {"Fast-path rollback applied via inverse Deltas",
              "Fast-path rollback validation failed; falling back to anchor restore"}

\* C27: whenever run_tick enters _rollback the slow path is taken: a breach
\* of step 6 arrives with no inverse deltas stored, a breach of step 1 has
\* breach_step 1, a collaborator's RuntimeError leaves breach_step unset, so
\* the condition of the fast path is false and the fast path never runs
C27_RunTickRollsBackSlowly ==
    (outcome # "idle" /\ EnteredRollback(ctx)) =>
       /\ ctx.breached
       /\ ctx.breach_step \in {1, 6, NoStep}
       /\ ctx.breach_step = 6 => ctx.inverse_deltas = <<>>
       /\ ctx.breach_step = NoStep => CollaboratorRaised(ctx)
       /\ ~(/\ ctx.timeline_hash_ok
            /\ 2 <= StepOr(ctx.breach_step) /\ StepOr(ctx.breach_step) <= 7
            /\ Len(ctx.inverse_deltas) > 0)
       /\ ~FastPathExecuted(ctx)
       /\ outcome = "returned" =>
             /\ Count(ctx.calls, "load_last_immutable_anchor") = 1
             /\ Count(ctx.calls, "assign_slow") = 1

\* the sink raised RuntimeError after step 6 stored the inverse deltas, with
\* the timeline hash intact: only the unset breach_step keeps the fast path off
C27_Witness ==
    /\ outcome = "returned"
    /\ EnteredRollback(ctx)
    /\ ctx.timeline_hash_ok
    /\ ctx.inverse_deltas # <<>>
    /\ ctx.breach_step = NoStep
    /\ Count(ctx.calls, "schedule_performance") = 1

\* C28: a tick that returns breached did not commit: current_snapshot is not
\* the tick's snapshot_out, also when step 6 had produced snapshot_out before
\* a later step failed (the performer or the sink raising RuntimeError in
\* step 11)
C28_NoCommitOnBreach ==
    (Returned /\ ctx.breached) =>
        /\ rt.current_snapshot # ctx.snapshot_out
        /\ Count(ctx.calls, "commit") = 0
        /\ ctx.snapshot_out # NoSnapshot => rt.current_snapshot.tick < ctx.snapshot_out.tick

\* the sink raised RuntimeError in step 11 on a tick whose snapshot_out step 6
\* had produced, after an earlier tick had committed
C28_Witness ==
    /\ Returned
    /\ ctx.breached
    /\ ctx.snapshot_out # NoSnapshot
    /\ ctx.snapshot_in.tick > 0
    /\ SchedulingFailed(ctx)
    /\ Count(ctx.calls, "schedule_performance") = 1

\* the kernel calls step 6 is to make for the deltas ds on the working state
RECURSIVE KernelProtocol(_, _, _)
KernelProtocol(kernel, ds, state) ==
    IF ds = <<>> THEN <<[name |-> "validate_state", delta |-> NoDelta, state |-> state]>>
    ELSE <<[name |-> "compute_inverse_delta", delta |-> Head(ds), state |-> state],
           [name |-> "apply_delta_in_place", delta |-> Head(ds), state |-> state]>>
         \o KernelProtocol(kernel, Tail(ds), ApplyDeltaInPlace(kernel, state, Head(ds)))

\* C29: for the accepted deltas d1..dn step 6 calls the kernel in the
\* sequence compute_inverse_delta(d1), apply_delta_in_place(d1), ...,
\* compute_inverse_delta(dn), apply_delta_in_place(dn), validate_state, each
\* call on the working state holding all earlier deltas of the tick (as far
\* as the first failure); validate_state is called once, after the last
\* delta; no rejected or fenced delta is passed to the kernel
C29_KernelCallProtocol ==
    (outcome # "idle" /\ ctx.snapshot_in # NoSnapshot) =>
       LET expected == KernelProtocol(rt.kernel, ctx.deltas_accepted,
                                      ctx.snapshot_in.zon4d_state)
           n == Len(ctx.kernel_calls)
       IN  /\ n <= Len(expected)
           /\ ctx.kernel_calls = SubSeq(expected, 1, n)
           /\ ctx.snapshot_out # NoSnapshot => n = Len(expected)
           /\ Count(ctx.calls, "validate_state") <= 1
           /\ Count(ctx.calls, "compute_inverse_delta")
                 + Count(ctx.calls, "apply_delta_in_place")
                 + Count(ctx.calls, "validate_state") = n
           /\ \A i \in 1..n :
                 /\ \A j \in DOMAIN ctx.deltas_rejected :
                       ctx.kernel_calls[i].delta # ctx.deltas_rejected[j]
                 /\ ctx.kernel_calls[i].name # "validate_state" =>
                       \E j \in DOMAIN ctx.pending_deltas :
                          /\ j <= rt.max_deltas_per_tick
                          /\ NormalizedDelta(ctx.pending_deltas[j])
                                = ctx.kernel_calls[i].delta

\* two deltas were applied and validated: the second inverse was asked for on
\* the state the first delta had changed
C29_Witness ==
    /\ Returned
    /\ ctx.snapshot_out # NoSnapshot
    /\ Len(ctx.kernel_calls) = 5
    /\ ctx.kernel_calls[3].name = "compute_inverse_delta"
    /\ ctx.kernel_calls[3].state # ctx.kernel_calls[1].state
    /\ ctx.kernel_calls[5].name = "validate_state"

(***************************************************************************)
(* Properties of _rollback (specification SpecRollback)                    *)
(***************************************************************************)
RolledBack == outcome \in {"rolled_back", "raised"}

\* the kernel was called during the rollback
KernelCalled(c) ==
    Count(c.calls, "apply_delta_in_place") + Count(c.calls, "validate_state") > 0

\* timeline_hash_ok answered (did not raise) at rollback time
HashAnswered(c) == ~(c.raised # "none" /\ c.calls[Len(c.calls)] = "timeline_hash_ok")

\* C5: the fast path is attempted (the kernel is called) only if
\* timeline_hash_ok is true at rollback time, breach_step is in 2..7 and an
\* inverse delta was recorded; if one of the three fails the slow path is
\* taken at once and the kernel is not called.
C5_RollbackDecisionRule ==
    (RolledBack /\ HashAnswered(ctx)) =>
        LET all3 == /\ ctx.timeline_hash_ok
                    /\ ctx.breach_step \in 2..7
                    /\ Len(ctx.inverse_deltas) > 0
        IN  /\ KernelCalled(ctx) => all3
            /\ ~all3 => /\ ~KernelCalled(ctx)
                        /\ ctx.calls[3] = "load_last_immutable_anchor"

C5_Witness ==
    /\ outcome = "rolled_back"
    /\ KernelCalled(ctx)
    /\ Count(ctx.calls, "assign_fast") = 1
    /\ ctx.breach_step = 7

\* the state left by applying invs[n], invs[n-1], ..., invs[1] to state
RECURSIVE UndoneFrom(_, _, _, _)
UndoneFrom(kernel, invs, n, state) ==
    IF n = 0 THEN state
    ELSE UndoneFrom(kernel, invs, n - 1, ApplyDeltaInPlace(kernel, state, invs[n]))

\* the fast path was attempted and _rollback returned
FastAttempted ==
    /\ outcome = "rolled_back"
    /\ ctx.timeline_hash_ok
    /\ ctx.breach_step \in 2..7
    /\ Len(ctx.inverse_deltas) > 0

FallbackMessage == "Fast-path rollback validation failed; falling back to anchor restore"

\* C33: when the fast path is attempted, every recorded inverse delta is
\* applied, last recorded first, to a copy of the state of the snapshot that
\* was current when _rollback was entered, and validate_state is asked once
\* about the result.  If it rejects, a CRITICAL alert is recorded,
\* current_snapshot is never assigned the candidate and the slow path leaves
\* the last immutable anchor in it; if it accepts, current_snapshot is the
\* entry snapshot with the rolled-back state and the anchor is not loaded.
C33_FastPathFallback ==
    FastAttempted =>
        LET candidate == UndoneFrom(rt.kernel, ctx.inverse_deltas,
                                    Len(ctx.inverse_deltas),
                                    ctx.snapshot_in.zon4d_state)
            n == Len(ctx.inverse_deltas)
        IN  /\ Count(ctx.calls, "apply_delta_in_place") = n
            /\ Count(ctx.calls, "validate_state") = 1
            /\ \A i \in 3..(n + 2) : ctx.calls[i] = "apply_delta_in_place"
            /\ ctx.calls[n + 3] = "validate_state"
            /\ ctx.snapshot_in.zon4d_state = rtB.current_snapshot.zon4d_state
            /\ IF ValidateState(rt.kernel, candidate)
                  THEN /\ rt.current_snapshot =
                             Snapshot(ctx.snapshot_in.id, ctx.snapshot_in.tick, candidate,
                                      ctx.snapshot_in.hash32, ctx.snapshot_in.anchor_type)
                       /\ Count(ctx.calls, "assign_fast") = 1
                       /\ Count(ctx.calls, "load_last_immutable_anchor") = 0
                       /\ Count(ctx.calls, "assign_slow") = 0
                       /\ ~HasAlert(ctx, "CRITICAL", FallbackMessage)
                  ELSE /\ HasAlert(ctx, "CRITICAL", FallbackMessage)
                       /\ Count(ctx.calls, "assign_fast") = 0
                       /\ Count(ctx.calls, "load_last_immutable_anchor") = 1
                       /\ Count(ctx.calls, "assign_slow") = 1
                       /\ rt.current_snapshot = LastImmutableAnchorOf(rt.anchor_store)

\* two inverse deltas for the same entity_ref were undone last first, so the
\* older value is the one left, and the kernel accepted the state
C33_Witness ==
    /\ FastAttempted
    /\ Len(ctx.inverse_deltas) = 2
    /\ ctx.inverse_deltas[1].payload # ctx.inverse_deltas[2].payload
    /\ rt.kernel = IntegrationKernel
    /\ Count(ctx.calls, "assign_fast") = 1
    /\ rt.current_snapshot.zon4d_state["audio/music"] = ctx.inverse_deltas[1].payload

(***************************************************************************)
(* Properties of ingestion and ordering (specification SpecIngest)         *)
(***************************************************************************)
\* the sort key as a tuple of integers, compared lexicographically
KeyOf(d) == <<d.temporal_index, Len(d.parent_ids), Rank(d.source_id), Rank(d.id)>>

LexLess(a, b) ==
    \E i \in 1..4 : a[i] < b[i] /\ \A j \in 1..(i - 1) : a[j] = b[j]

IsSortedByKey(s) ==
    \A i, j \in DOMAIN s : i < j => ~LexLess(KeyOf(s[j]), KeyOf(s[i]))

Bijections(n) == {f \in [1..n -> 1..n] : \A i, j \in 1..n : f[i] = f[j] => i = j}

IsPermutation(a, b) ==
    /\ Len(a) = Len(b)
    /\ \E f \in Bijections(Len(a)) : \A i \in DOMAIN a : a[i] = b[f[i]]

PermutationsOf(s) == {[i \in 1..Len(s) |-> s[f[i]]] : f \in Bijections(Len(s))}

Min(a, b) == IF a <= b THEN a ELSE b

MapNormalized(s) == [i \in DOMAIN s |-> NormalizedDelta(s[i])]

\* what ingestion keeps of a submitted list under the limit m
Ingested(s, m) ==
    MapNormalized(SelectSeq(SubSeq(s, 1, Min(Len(s), m)), ValidateDeltaStructure))

StrictlyAscending(s) ==
    \A i \in 1..(Len(s) - 1) : s[i].temporal_index < s[i + 1].temporal_index

\* C7 as stated: if the submitted deltas have pairwise distinct
\* temporal_index values, deltas_accepted is in strictly ascending
\* temporal_index order.
C7_AscendingAsStated ==
    (Returned /\ \A i, j \in DOMAIN ctx.pending_deltas :
                    i # j => ctx.pending_deltas[i].temporal_index
                                # ctx.pending_deltas[j].temporal_index)
        => StrictlyAscending(ctx.deltas_accepted)

\* C7 amended: if the submitted deltas have temporal_index values that are
\* pairwise distinct after rounding to 6 decimals, deltas_accepted is in
\* strictly ascending temporal_index order, whatever the submission order.
C7_AscendingAfterRounding ==
    (Returned /\ \A i, j \in DOMAIN ctx.pending_deltas :
                    i # j => Round6(ctx.pending_deltas[i].temporal_index)
                                # Round6(ctx.pending_deltas[j].temporal_index))
        => StrictlyAscending(ctx.deltas_accepted)

\* submitted in descending order, accepted in ascending order
C7_Witness ==
    /\ Returned
    /\ Len(ctx.pending_deltas) >= 2
    /\ Len(ctx.deltas_accepted) = Len(ctx.pending_deltas)
    /\ ctx.pending_deltas[1].temporal_index > ctx.pending_deltas[2].temporal_index
    /\ ctx.deltas_accepted[1].temporal_index < ctx.deltas_accepted[2].temporal_index

\* C8: on a tick that is not breached deltas_ordered is a permutation of the
\* structurally valid, normalized deltas ingestion kept, sorted ascending by
\* (temporal_index, len(parent_ids), source_id, id).
C8_OrderedBySortKey ==
    (Returned /\ ~ctx.breached) =>
        /\ IsSortedByKey(ctx.deltas_ordered)
        /\ IsPermutation(ctx.deltas_ordered,
                         Ingested(ctx.pending_deltas, rt.max_deltas_per_tick))

\* a tie on temporal_index broken by depth against the submission order and
\* against source_id
C8_Witness ==
    /\ Returned /\ ~ctx.breached
    /\ Len(ctx.deltas_ordered) = 2
    /\ ctx.deltas_ordered[1] = NormalizedDelta(ctx.pending_deltas[2])
    /\ ctx.deltas_ordered[1].temporal_index = ctx.deltas_ordered[2].temporal_index
    /\ Len(ctx.deltas_ordered[1].parent_ids) < Len(ctx.deltas_ordered[2].parent_ids)
    /\ StrLess(ctx.deltas_ordered[2].source_id, ctx.deltas_ordered[1].source_id)

\* deltas_accepted of the first tick of a Runtime constructed like rt, under
\* the same answer of the Anchor Store, for the submission p
AcceptedOnFresh(p) ==
    RunTick(NewRuntime(rt.kernel, rt.max_deltas_per_tick, rt.performer),
            p, ctx.domain_views, PyNone, 0,
            HealthyEnv(ctx.timeline_hash_ok)).ctx.deltas_accepted

\* C9 as stated: every submission order of the same pending deltas yields
\* the same deltas_accepted.
C9_CallerIndependentAsStated ==
    (Returned /\ ctx.tick_id = 1) =>
        \A p \in PermutationsOf(ctx.pending_deltas) :
            AcceptedOnFresh(p) = ctx.deltas_accepted

DistinctKeys(s) ==
    \A i, j \in DOMAIN s : i # j => KeyOf(s[i]) # KeyOf(s[j])

\* C9 amended: every submission order of the same pending deltas yields the
\* same deltas_accepted, provided there are at most max_deltas_per_tick of
\* them and no two structurally valid ones have the same normalized sort key.
C9_CallerIndependent ==
    (/\ Returned /\ ctx.tick_id = 1
     /\ Len(ctx.pending_deltas) <= rt.max_deltas_per_tick
     /\ DistinctKeys(Ingested(ctx.pending_deltas, rt.max_deltas_per_tick))) =>
        \A p \in PermutationsOf(ctx.pending_deltas) :
            AcceptedOnFresh(p) = ctx.deltas_accepted

\* two deltas with the same temporal_index, submitted in the other order
C9_Witness ==
    /\ Returned /\ ctx.tick_id = 1
    /\ Len(ctx.pending_deltas) = 2
    /\ Len(ctx.deltas_accepted) = 2
    /\ DistinctKeys(ctx.deltas_accepted)
    /\ ctx.deltas_accepted[1].temporal_index = ctx.deltas_accepted[2].temporal_index
    /\ ctx.deltas_accepted[1] = NormalizedDelta(ctx.pending_deltas[2])

\* the message of the fence alert for an overflow of n deltas
FenceMessage(n) == "Temporal fence: " \o ToString(n) \o " Deltas pushed to next Tick"

IsFenceAlert(a) ==
    /\ a.level = "WARNING" /\ a.step = 2
    /\ \E n \in (0 - MaxLen)..MaxLen : a.message = FenceMessage(n)

FenceAlerts(c) == SelectSeq(c.alerts, IsFenceAlert)

\* every CRITICAL alert of the tick was raised by a step in steps
CriticalOnlyFrom(c, steps) ==
    \A i \in DOMAIN c.alerts : c.alerts[i].level = "CRITICAL" => c.alerts[i].step \in steps

\* C11 as stated: with N submitted deltas and the limit M, N > M gives
\* exactly M accepted deltas, fenced = true, exactly one WARNING alert with
\* the overflow N - M and no breach on that account; N <= M leaves fenced
\* false and records no fence alert.
C11_FencingAsStated ==
    Returned =>
        LET n == Len(ctx.pending_deltas)
            m == rt.max_deltas_per_tick
        IN  /\ n > m =>
                  /\ Len(ctx.deltas_accepted) = m
                  /\ ctx.fenced
                  /\ Len(FenceAlerts(ctx)) = 1
                  /\ FenceAlerts(ctx)[1].message = FenceMessage(n - m)
                  /\ CriticalOnlyFrom(ctx, {1, 6})
            /\ n <= m => ~ctx.fenced /\ FenceAlerts(ctx) = <<>>

\* C11 amended: when N > M and the timeline hash check of tick init passed,
\* only the first M submitted deltas are ingested: the accepted deltas are
\* the structurally valid ones among them (accepted + rejected = M),
\* fenced = true, exactly one WARNING alert records the overflow N - M, and
\* the fence raises no breach (a breach of the tick comes from step 6);
\* when N <= M, or the tick was breached at init, fenced stays false and no
\* fence alert is recorded.
C11_Fencing ==
    Returned =>
        LET n == Len(ctx.pending_deltas)
            m == rt.max_deltas_per_tick
        IN  /\ (n > m /\ ctx.timeline_hash_ok) =>
                  /\ Len(ctx.deltas_accepted) + Len(ctx.deltas_rejected) = m
                  /\ IsPermutation(ctx.deltas_accepted, Ingested(ctx.pending_deltas, m))
                  /\ ctx.fenced
                  /\ Len(FenceAlerts(ctx)) = 1
                  /\ FenceAlerts(ctx)[1].message = FenceMessage(n - m)
                  /\ CriticalOnlyFrom(ctx, {6})
                  /\ ctx.breached => ctx.breach_step = 6
            /\ (n <= m \/ ~ctx.timeline_hash_ok) =>
                  ~ctx.fenced /\ FenceAlerts(ctx) = <<>>

\* more deltas than the limit, the kept ones valid, the tick committed
C11_Witness ==
    /\ Returned /\ ~ctx.breached
    /\ Len(ctx.pending_deltas) > rt.max_deltas_per_tick
    /\ ctx.fenced
    /\ Len(ctx.deltas_accepted) = rt.max_deltas_per_tick
    /\ ctx.snapshot_out # NoSnapshot

\* the conditions of structural rejection, as the claim lists them
Malformed(d) ==
    \/ d.id = "" \/ d.source_id = "" \/ d.entity_ref = ""
    \/ d.temporal_scope[1] > d.temporal_scope[2]
    \/ Len(d.parent_ids) > 64

IsRejectionAlert(a) == a.level = "WARNING" /\ a.step = 2 /\ ~IsFenceAlert(a)

RejectionAlerts(c) == SelectSeq(c.alerts, IsRejectionAlert)

\* C12: of the deltas ingestion examines (the first max_deltas_per_tick
\* submitted, on a tick not breached at init) exactly the malformed ones
\* (empty id, source_id or entity_ref, scope start > end, more than 64
\* parents) are in deltas_rejected, in submission order, each with one
\* WARNING alert naming it; a rejection raises no breach and the other
\* deltas are accepted and applied.
C12_StructuralRejection ==
    (Returned /\ ctx.timeline_hash_ok) =>
        LET m == rt.max_deltas_per_tick
            kept == SubSeq(ctx.pending_deltas, 1, Min(Len(ctx.pending_deltas), m))
        IN  /\ ctx.deltas_rejected = SelectSeq(kept, Malformed)
            /\ Len(RejectionAlerts(ctx)) = Len(ctx.deltas_rejected)
            /\ \A i \in DOMAIN ctx.deltas_rejected :
                   RejectionAlerts(ctx)[i].message
                      = "Rejected malformed Delta " \o ctx.deltas_rejected[i].id
            /\ CriticalOnlyFrom(ctx, {6})
            /\ Len(ctx.deltas_accepted) = Len(kept) - Len(ctx.deltas_rejected)
            /\ \A i \in DOMAIN kept :
                   ~Malformed(kept[i]) =>
                       \E j \in DOMAIN ctx.deltas_accepted :
                           ctx.deltas_accepted[j] = NormalizedDelta(kept[i])
            /\ (\A i \in DOMAIN ctx.deltas_accepted :
                    ctx.deltas_accepted[i].payload = AddPayload(PyInt(1)))
                 /\ rt.kernel = "TestZON4DKernel"
                 => /\ ~ctx.breached
                    /\ ctx.snapshot_out.zon4d_state["value"]
                         = PyAdd(ctx.snapshot_in.zon4d_state["value"],
                                 PyInt(Len(ctx.deltas_accepted)))

\* 65 parents rejected, exactly 64 parents accepted and applied
C12_Witness ==
    /\ Returned /\ ~ctx.breached
    /\ Len(ctx.deltas_rejected) = 1
    /\ Len(ctx.deltas_rejected[1].parent_ids) = MaxParents + 1
    /\ Len(ctx.deltas_accepted) = 1
    /\ Len(ctx.deltas_accepted[1].parent_ids) = MaxParents
    /\ ctx.deltas_accepted[1].temporal_scope[1] = ctx.deltas_accepted[1].temporal_scope[2]
    /\ ctx.snapshot_out.zon4d_state["value"] = PyInt(1)

FailsValidation(d) == ~ValidateDeltaStructure(d)

Occurs(d, s) == \E i \in DOMAIN s : s[i] = d

\* C30: on a tick not breached at step 1 the first min(N, M) submitted deltas
\* are partitioned by ingestion: each is either in deltas_accepted
\* (normalised) or in deltas_rejected, never in both, so that
\* len(deltas_accepted) + len(deltas_rejected) = min(N, M); deltas_accepted
\* holds the deltas of deltas_ordered in the same order
C30_IngestionPartition ==
    (Returned /\ ctx.breach_step # 1) =>
        LET k == Min(Len(ctx.pending_deltas), rt.max_deltas_per_tick)
            first == SubSeq(ctx.pending_deltas, 1, k)
        IN  /\ Len(ctx.deltas_accepted) + Len(ctx.deltas_rejected) = k
            /\ ctx.deltas_rejected = SelectSeq(first, FailsValidation)
            /\ IsPermutation(ctx.deltas_accepted,
                             MapNormalized(SelectSeq(first, ValidateDeltaStructure)))
            /\ \A i \in 1..k :
                  IF ValidateDeltaStructure(first[i])
                     THEN /\ Occurs(NormalizedDelta(first[i]), ctx.deltas_accepted)
                          /\ ~Occurs(first[i], ctx.deltas_rejected)
                  ELSE /\ Occurs(first[i], ctx.deltas_rejected)
                       /\ ~Occurs(NormalizedDelta(first[i]), ctx.deltas_accepted)
            /\ ctx.deltas_accepted = ctx.deltas_ordered

\* of two submitted deltas one was accepted, in a form normalisation changed,
\* and the other rejected
C30_Witness ==
    /\ Returned
    /\ ctx.breach_step # 1
    /\ Len(ctx.pending_deltas) = 2
    /\ Len(ctx.deltas_accepted) = 1
    /\ Len(ctx.deltas_rejected) = 1
    /\ ~Occurs(ctx.deltas_accepted[1], ctx.pending_deltas)

\* the deltas the fence cut off: those after position m of the submitted list
Dropped(s, m) == SubSeq(s, m + 1, Len(s))

\* d, as submitted or normalised, is in none of the four lists of c
InNoList(d, c) ==
    \A l \in {c.deltas_in, c.deltas_ordered, c.deltas_accepted, c.deltas_rejected} :
       ~Occurs(d, l) /\ ~Occurs(NormalizedDelta(d), l)

\* C32: the deltas truncated by fencing are those after position
\* max_deltas_per_tick of the submitted list, whatever their temporal_index
\* or validity; the lists of the context are made from the first
\* max_deltas_per_tick alone, a dropped delta that is none of those is in
\* none of deltas_in, deltas_ordered, deltas_accepted, deltas_rejected; the
\* Runtime has no field that keeps them, and every tick ingests the deltas
\* passed to its own call only
C32_FencedDeltasDropped ==
    /\ DOMAIN rt = DOMAIN NewRuntime(rt.kernel, rt.max_deltas_per_tick, rt.performer)
    /\ rt = [NewRuntime(rt.kernel, rt.max_deltas_per_tick, rt.performer)
               EXCEPT !.tick_counter = rt.tick_counter,
                      !.current_snapshot = rt.current_snapshot,
                      !.last_wall_clock_ts = rt.last_wall_clock_ts]
    /\ (Returned /\ ctx.breach_step # 1) =>
          LET m == rt.max_deltas_per_tick
              kept == SubSeq(ctx.pending_deltas, 1, Min(Len(ctx.pending_deltas), m))
          IN  /\ ctx.fenced <=> Len(ctx.pending_deltas) > m
              /\ ctx.deltas_in = Ingested(kept, Len(kept))
              /\ ctx.deltas_in = Ingested(ctx.pending_deltas, m)
              /\ ctx.deltas_ordered = Sorted(Ingested(kept, Len(kept)))
              /\ ctx.deltas_accepted = ctx.deltas_ordered
              /\ ctx.deltas_rejected = SelectSeq(kept, FailsValidation)
              /\ \A j \in DOMAIN ctx.pending_deltas :
                    (/\ j > m
                     /\ \A i \in DOMAIN kept :
                           /\ kept[i] # ctx.pending_deltas[j]
                           /\ NormalizedDelta(kept[i])
                                 # NormalizedDelta(ctx.pending_deltas[j]))
                       => InNoList(ctx.pending_deltas[j], ctx)

\* the second tick on a Runtime with limit 1 was handed two valid deltas: the
\* one with the smaller temporal_index came second and was dropped, the other
\* was applied and committed
C32_Witness ==
    /\ Returned /\ ~ctx.breached
    /\ ctx.tick_id = 2
    /\ ctx.fenced
    /\ Len(ctx.pending_deltas) = 2
    /\ ValidateDeltaStructure(ctx.pending_deltas[2])
    /\ ctx.pending_deltas[2].temporal_index < ctx.pending_deltas[1].temporal_index
    /\ ctx.deltas_accepted = <<NormalizedDelta(ctx.pending_deltas[1])>>
    /\ InNoList(ctx.pending_deltas[2], ctx)
    /\ rt.current_snapshot = ctx.snapshot_out

(***************************************************************************)
(* Properties of the commit over a run (specification SpecLogged)          *)
(***************************************************************************)
\* the snapshots the caller read before the last call
Earlier == SubSeq(history, 1, Len(history) - 1)

\* C17: on a tick that returns unbreached snapshot_out is set, is a new
\* Snapshot with tick = tick_id and an id that no snapshot installed before
\* had, and is current_snapshot at return; current_snapshot was assigned
\* once in the tick, by the commit, as the last thing after step 6
\* validated, step 10 ran and step 11 logged its completion.
C17_CommitRule ==
    (Returned /\ ~ctx.breached) =>
        /\ ctx.snapshot_out # NoSnapshot
        /\ ctx.snapshot_out # ctx.snapshot_in
        /\ ctx.snapshot_out.tick = ctx.tick_id
        /\ \A i \in DOMAIN Earlier :
               Earlier[i].current_snapshot.id # ctx.snapshot_out.id
        /\ rt.current_snapshot = ctx.snapshot_out
        /\ Count(ctx.calls, "commit") = 1
        /\ Count(ctx.calls, "assign_fast") + Count(ctx.calls, "assign_slow") = 0
        /\ ctx.calls[Len(ctx.calls)] = "commit"
        /\ Count(ctx.calls, "validate_state") = 1
        /\ Count(ctx.calls, "generate_domain_views_from_state") = 1
        /\ ctx.alerts[Len(ctx.alerts)].step = 11
        /\ ctx.alerts[Len(ctx.alerts)].level = "INFO"

\* a second commit in a row, with the performer scheduled
C17_Witness ==
    /\ Returned /\ ~ctx.breached
    /\ ctx.tick_id = 2
    /\ ctx.snapshot_in.tick = 1
    /\ rt.current_snapshot = ctx.snapshot_out
    /\ Count(ctx.calls, "schedule_performance") = 1
    /\ Len(ctx.deltas_accepted) > 0

\* C19: the tick ids of successive run_tick calls are 1, 2, 3, ... whether
\* the call commits, is breached or raises, and no two different snapshots
\* ever read in current_snapshot have the same tick number or the same id.
C19_OneSnapshotPerTick ==
    /\ \A i \in DOMAIN history : history[i].tick_id = i - 1
    /\ outcome # "idle" => ctx.tick_id = rt.tick_counter
    /\ \A i, j \in DOMAIN history :
           LET a == history[i].current_snapshot
               b == history[j].current_snapshot
           IN  a # b => a.tick # b.tick /\ a.id # b.id

\* a breached tick between the construction and a committed tick
C19_Witness ==
    /\ Len(history) >= 3
    /\ history[2].current_snapshot = history[1].current_snapshot
    /\ history[3].current_snapshot.tick = 2
    /\ Returned /\ ~ctx.breached

AnchorStoreOperations ==
    {"load_initial_snapshot", "load_last_immutable_anchor", "compute_hash",
     "append_snapshot", "timeline_hash_ok"}

\* C31: run_tick calls neither append_snapshot nor compute_hash of the
\* Anchor Store, on commit or on rollback: the store's timeline stays as
\* constructed and the only operations called are timeline_hash_ok and
\* load_last_immutable_anchor; so the anchor the slow path restores is the
\* one of construction, and a breached tick after committed ticks leaves
\* current_snapshot at tick 0 with the state of construction
C31_AnchorStoreUntouched ==
    /\ rt.timeline = <<LoadLastImmutableAnchor>>
    /\ \A i \in DOMAIN ctx.calls :
          ctx.calls[i] \in AnchorStoreOperations
             => ctx.calls[i] \in {"timeline_hash_ok", "load_last_immutable_anchor"}
    /\ (Returned /\ ctx.breached) =>
          /\ Count(ctx.calls, "load_last_immutable_anchor") = 1
          /\ rt.current_snapshot = LoadInitialSnapshot
          /\ history[Len(history)].current_snapshot.tick = 0
          /\ \A i \in DOMAIN Earlier :
                Earlier[i].current_snapshot.tick > 0
                   => Earlier[i].current_snapshot # rt.current_snapshot

\* a breached tick after a committed tick that had changed the value: the
\* anchor of construction is current again
C31_Witness ==
    /\ Returned
    /\ ctx.breached
    /\ ctx.tick_id = 2
    /\ Len(history) = 3
    /\ history[2].current_snapshot.tick = 1
    /\ history[2].current_snapshot.zon4d_state # LoadInitialSnapshot.zon4d_state
    /\ rt.current_snapshot = LoadInitialSnapshot

(***************************************************************************)
(* Properties of mutation (specification SpecMutate)                       *)
(***************************************************************************)
\* the working state of step 6 after the deltas s, from the state st
RECURSIVE StateAfter(_, _, _)
StateAfter(kernel, st, s) ==
    IF s = <<>> THEN st
    ELSE StateAfter(kernel, ApplyDeltaInPlace(kernel, st, Head(s)), Tail(s))

\* C13: when step 6 completed (snapshot_out is set), inverse_deltas is as
\* long as deltas_accepted and inverse_deltas[i] is the inverse the kernel
\* computes for deltas_accepted[i] against the state left by the deltas
\* before it.
C13_InverseAlignment ==
    (Returned /\ ctx.snapshot_out # NoSnapshot) =>
        /\ Len(ctx.inverse_deltas) = Len(ctx.deltas_accepted)
        /\ \A i \in DOMAIN ctx.deltas_accepted :
               /\ ctx.inverse_deltas[i].id = "inv_" \o ctx.deltas_accepted[i].id
               /\ ctx.inverse_deltas[i] =
                     ComputeInverseDelta(
                        rt.kernel,
                        StateAfter(rt.kernel, ctx.snapshot_in.zon4d_state,
                                   SubSeq(ctx.deltas_accepted, 1, i - 1)),
                        ctx.deltas_accepted[i])

\* two accepted deltas with different ids, committed
C13_Witness ==
    /\ Returned /\ ~ctx.breached
    /\ Len(ctx.deltas_accepted) = 2
    /\ ctx.deltas_accepted[1].id # ctx.deltas_accepted[2].id
    /\ Len(ctx.inverse_deltas) = 2

\* for inv in reversed(inverse_deltas): apply_delta_in_place(state, inv)
Undone(kernel, state, inverse_deltas) ==
    StateAfter(kernel, state,
               [i \in 1..Len(inverse_deltas) |->
                   inverse_deltas[Len(inverse_deltas) + 1 - i]])

\* C14: on a tick that is not breached, the inverse deltas applied in
\* reverse order to snapshot_out's state give back, at every entity_ref an
\* accepted delta touched and at every key of either state, the value
\* snapshot_in's state has there (None where it has none).
C14_RoundTrip ==
    (Returned /\ ~ctx.breached) =>
        LET back == Undone(rt.kernel, ctx.snapshot_out.zon4d_state, ctx.inverse_deltas)
            refs == {ctx.deltas_accepted[i].entity_ref : i \in DOMAIN ctx.deltas_accepted}
        IN  \A k \in refs \cup DOMAIN back \cup DOMAIN ctx.snapshot_in.zon4d_state :
               StateGet(back, k) = StateGet(ctx.snapshot_in.zon4d_state, k)

\* two accepted deltas on the same entity_ref that changed the state
C14_Witness ==
    /\ Returned /\ ~ctx.breached
    /\ Len(ctx.deltas_accepted) = 2
    /\ ctx.deltas_accepted[1].entity_ref = ctx.deltas_accepted[2].entity_ref
    /\ ctx.deltas_accepted[1].payload # ctx.deltas_accepted[2].payload
    /\ ctx.snapshot_in.tick > 0
    /\ ctx.snapshot_out.zon4d_state # ctx.snapshot_in.zon4d_state

(***************************************************************************)
(* Properties of the dict objects (specification SpecHeap)                 *)
(***************************************************************************)
\* C18: the dict of the Anchor Store's immutable anchor and the dict of
\* every snapshot handed to the caller in a TickContext (snapshot_in and
\* snapshot_out of every tick so far) still have the content they had when
\* the snapshot was handed over, after any sequence of committed ticks,
\* breached ticks and rollbacks; the dict current_snapshot holds has the
\* content of current_snapshot.
C18_NoInPlaceMutation ==
    /\ heap.cells[heap.anchor] = LastImmutableAnchorOf(rt.anchor_store).zon4d_state
    /\ \A i \in DOMAIN heap.handed :
           heap.cells[heap.handed[i].ref] = heap.handed[i].zon4d_state
    /\ heap.cells[heap.current] = rt.current_snapshot.zon4d_state
    /\ outcome = "returned" =>
           /\ heap.handed[Len(heap.handed)].zon4d_state \in
                 {ctx.snapshot_in.zon4d_state, ctx.snapshot_out.zon4d_state}
           /\ \E i \in DOMAIN heap.handed :
                  heap.cells[heap.handed[i].ref] = ctx.snapshot_in.zon4d_state

\* a fast rollback of the second committed tick: the rolled back state is
\* in a dict of its own, the dicts of the four snapshots handed out differ
C18_Witness ==
    /\ outcome = "rolled_back"
    /\ Count(ctx.calls, "assign_fast") = 1
    /\ Len(heap.handed) >= 4
    /\ heap.cells[heap.current] # ctx.snapshot_out.zon4d_state
    /\ heap.cells[heap.handed[Len(heap.handed)].ref] = ctx.snapshot_out.zon4d_state
    /\ heap.current # heap.handed[Len(heap.handed)].ref
    /\ heap.current # heap.anchor

(***************************************************************************)
(* Properties of the delta objects (specification SpecAlias)               *)
(***************************************************************************)
\* the lists and dicts a delta object names
FieldObjects(o) == {o.parent_ids, o.payload, o.metadata}

\* the context of the last call holds deltas that step 2 made
IngestedObjects == outcome \in {"returned", "mutated"} /\ ctx.breach_step # 1

\* the deltas of heap.deltas read now as ctx.deltas_in read when run_tick
\* returned
ContextDeltasAsReturned ==
    [i \in DOMAIN heap.deltas |-> DeltaValue(heap, heap.deltas[i])] = ctx.deltas_in

\* C25: after ingestion every delta of the context is a new record with its
\* temporal_index rounded, whose parent_ids, metadata and payload are objects
\* of no delta of the caller, so that the context's deltas read the same after
\* the caller changed one of its own deltas; run_tick leaves the caller's
\* deltas and pending list as they were passed
C25_NormalizationRemovesAliasing ==
    /\ IngestedObjects =>
          /\ \A i \in DOMAIN heap.deltas :
                /\ heap.deltas[i].temporal_index = Round6(heap.deltas[i].temporal_index)
                /\ \A j \in DOMAIN heap.pending :
                      FieldObjects(heap.deltas[i]) \cap FieldObjects(heap.pending[j]) = {}
          /\ ContextDeltasAsReturned
    /\ outcome = "returned" =>
          [j \in DOMAIN heap.pending |-> DeltaValue(heap, heap.pending[j])]
              = ctx.pending_deltas

(***************************************************************************)
(* Properties of hydration and scheduling (specification SpecPerform)      *)
(***************************************************************************)
\* step 6 produced snapshot_out and step 10 derived the views from it
Hydrated(c) == c.snapshot_out # NoSnapshot /\ ~ViewsFailed(c)

DerivedViews(c) == GenerateDomainViewsFromState(c.snapshot_out.zon4d_state, c.tick_id)

\* C21: after a non-breached mutation (and a view generation that did not
\* fail) ctx.domain_views is the caller's views overridden by the views
\* derived from snapshot_out's state: its keys are those of both, a derived
\* key carries the derived value even when the caller supplied that key, a
\* caller key without a derived counterpart keeps the caller's value, and
\* the caller's own mapping is as it was passed.
C21_DerivedViewsTakePrecedence ==
    (Returned /\ Hydrated(ctx)) =>
        /\ DOMAIN ctx.domain_views = DOMAIN ctx.views_arg \cup DOMAIN DerivedViews(ctx)
        /\ \A k \in DOMAIN DerivedViews(ctx) : ctx.domain_views[k] = DerivedViews(ctx)[k]
        /\ \A k \in DOMAIN ctx.views_arg \ DOMAIN DerivedViews(ctx) :
               ctx.domain_views[k] = ctx.views_arg[k]
        /\ ctx.caller_views = ctx.views_arg

\* the caller and the new state both have a narrative view, with different
\* conversations, and the caller has a view the state has none for
C21_Witness ==
    /\ Returned /\ Hydrated(ctx) /\ ~ctx.breached
    /\ "narrative_view" \in DOMAIN ctx.views_arg \cap DOMAIN DerivedViews(ctx)
    /\ ctx.views_arg["narrative_view"] # DerivedViews(ctx)["narrative_view"]
    /\ "camera_view" \in DOMAIN ctx.domain_views \ DOMAIN DerivedViews(ctx)

\* step 6 handed over snapshot_out, so the tick got to step 11 unbreached
ReachedStep11(c) == c.snapshot_out # NoSnapshot

\* performer.step raised: the last collaborator call before the breach
PerformerRaised(c) ==
    CollaboratorRaised(c) /\ Count(c.calls, "schedule_performance") = 0

\* the run_tick call that took the Runtime r0 and returned c kept the
\* protocol of step 11
Step11Protocol(r0, r1, c) ==
    /\ (ReachedStep11(c) /\ r0.performer) =>
          /\ Count(c.calls, "performer.step") = 1
          /\ FirstIndex(c.calls, {"performer.step"})
                > FirstIndex(c.calls, {"validate_state"})
          /\ FirstIndex(c.calls, {"performer.step"})
                > FirstIndex(c.calls, {"generate_domain_views_from_state"})
          /\ FirstIndex(c.calls, {"generate_domain_views_from_state"}) > 0
          /\ c.performer_calls = <<[tick_id |-> c.tick_id,
                                    delta_time |-> c.delta_time,
                                    domain_views |-> c.domain_views]>>
          /\ ~PerformerRaised(c) =>
                /\ c.performance_tasks =
                      PerformerStep(r0.scene_track, c.tick_id, c.delta_time,
                                    c.domain_views).tasks
                /\ Count(c.calls, "schedule_performance") = 1
                /\ c.sink_calls = <<[tick_id |-> c.tick_id,
                                     tasks |-> c.performance_tasks]>>
                /\ FirstIndex(c.calls, {"schedule_performance"})
                      > FirstIndex(c.calls, {"performer.step"})
    /\ (c.breached /\ c.breach_step \in {1, 6}) =>
          /\ Count(c.calls, "performer.step") = 0
          /\ Count(c.calls, "schedule_performance") = 0
          /\ c.performer_calls = <<>> /\ c.sink_calls = <<>>
          /\ r1.scene_track = r0.scene_track
          /\ r1.task_log = r0.task_log

\* C22: on a tick that reaches step 11 unbreached with a performer attached
\* performer.step is called exactly once, after validate_state and the view
\* generation, with (tick_id, delta_time, merged views); what it returns is
\* ctx.performance_tasks and is passed, exactly once, to
\* schedule_performance; on a tick breached at step 1 or step 6 neither the
\* performer nor the sink is called.
C22_PerformerProtocol ==
    [][outcome' = "returned" => Step11Protocol(rt, rt', ctx')]_vars

\* the performer returned a task and the sink was handed it
C22_Witness ==
    /\ Returned /\ ~ctx.breached
    /\ Len(ctx.performance_tasks) > 0
    /\ Len(ctx.sink_calls) = 1
    /\ ctx.sink_calls[1].tasks = ctx.performance_tasks
    /\ Len(rt.task_log) > 0

\* the tasks of the sink's log are in the order of their ticks, and a task of
\* a later tick has no smaller scene_time than a task of an earlier one
TaskLogInSceneOrder(log) ==
    \A i, j \in DOMAIN log :
       i < j => /\ log[i].tick <= log[j].tick
                /\ log[i].tick < log[j].tick => log[i].scene_time <= log[j].scene_time

\* C26: over the run_tick calls on a Runtime with a PerformerEngine the
\* scene_time of the SceneTrack never decreases (a negative delta_time counts
\* as 0), and the tasks emitted in a later tick have a scene_time no smaller
\* than the tasks emitted in an earlier tick
C26_SceneTimeNeverDecreases ==
    [][/\ rt'.scene_track.scene_time >= rt.scene_track.scene_time
       /\ (ctx'.raised = "none" /\ ctx'.tick_id > 0 /\ ctx'.delta_time <= 0)
             => rt'.scene_track.scene_time = rt.scene_track.scene_time
       /\ TaskLogInSceneOrder(rt'.task_log)]_vars

\* the second tick was called with a negative delta_time after a first tick
\* that advanced the scene time and emitted tasks, and step 11 ran on it
C26_Witness ==
    /\ outcome = "returned"
    /\ ctx.tick_id = 2
    /\ ReachedStep11(ctx)
    /\ ctx.delta_time = 0
    /\ rt.scene_track.scene_time > 0
    /\ rt.task_log # <<>>

(***************************************************************************)
(* Properties of the clips and tasks (specification SpecStep)              *)
(***************************************************************************)
\* the clip ids of the tasks the calls returned from the track track_id
ClipIdsReturned(track_id) ==
    UNION {{history[i].tasks[k].clip_id :
               k \in {x \in DOMAIN history[i].tasks :
                         history[i].tasks[x].track_id = track_id}} :
           i \in DOMAIN history}

\* C34: over any sequence of step and gather_new_tasks_for_window calls no
\* clip id is returned twice, in one call or in two; every task returned is
\* the task of a clip of its track, carrying the tick id of the call that
\* returned it; the ids a track has triggered are the ids returned from it,
\* so a track never yields more tasks than it has clips.
C34_ClipBecomesTaskOnce ==
    /\ \A i, j \in DOMAIN history :
          \A k \in DOMAIN history[i].tasks, l \in DOMAIN history[j].tasks :
             (i # j \/ k # l) => history[i].tasks[k].clip_id # history[j].tasks[l].clip_id
    /\ \A i \in DOMAIN history : \A k \in DOMAIN history[i].tasks :
          LET task == history[i].tasks[k]
              n == TrackIndex(rt.scene_track, task.track_id)
          IN  /\ n # 0
              /\ \E c \in DOMAIN rt.scene_track.tracks[n].clips :
                    /\ rt.scene_track.tracks[n].clips[c].id = task.clip_id
                    /\ rt.scene_track.tracks[n].clips[c].start_time = task.scene_time
              /\ task.scene_time > history[i].window[1]
              /\ task.scene_time <= history[i].window[2]
              /\ task.tick_id = history[i].tick_id
              /\ task.id = task.clip_id \o "@" \o ToString(history[i].tick_id)
    /\ \A n \in DOMAIN rt.scene_track.tracks :
          LET track == rt.scene_track.tracks[n]
          IN  /\ track.triggered_clips = ClipIdsReturned(track.id)
              /\ Cardinality(track.triggered_clips) <= Len(track.clips)

\* a step returned the task of a clip; the next call asked for a window that
\* holds the start time of that clip and got no task
C34_Witness ==
    /\ Len(history) = 2
    /\ history[1].op = "step"
    /\ Len(history[1].tasks) = 1
    /\ history[2].op = "gather"
    /\ history[2].window[1] < history[1].tasks[1].scene_time
    /\ history[1].tasks[1].scene_time <= history[2].window[2]
    /\ history[2].tasks = <<>>

(***************************************************************************)
(* Determinism (specification SpecReplay)                                  *)
(***************************************************************************)
Ids(s) == [i \in DOMAIN s |-> s[i].id]

\* C10: two Runtimes constructed alike and fed the same calls agree at every
\* tick on the output snapshot, the breached flag and the accepted, rejected
\* and ordered delta ids.
C10_Determinism ==
    (outcome # "idle") =>
        /\ outcome = outcomeB
        /\ Returned =>
              /\ ctx.snapshot_out = ctxB.snapshot_out
              /\ ctx.breached = ctxB.breached
              /\ Ids(ctx.deltas_accepted) = Ids(ctxB.deltas_accepted)
              /\ Ids(ctx.deltas_rejected) = Ids(ctxB.deltas_rejected)
              /\ Ids(ctx.deltas_ordered) = Ids(ctxB.deltas_ordered)

\* the second tick of both, committed, with different clock readings
C10_Witness ==
    /\ Returned /\ outcomeB = "returned"
    /\ ctx.tick_id = 2
    /\ ctx.wall_clock_ts # ctxB.wall_clock_ts
    /\ ctx.delta_time # ctxB.delta_time
    /\ ctx.snapshot_out # NoSnapshot
    /\ Len(ctx.deltas_accepted) > 0

====
